---- MODULE Spec2Model ----
(***************************************************************************)
(* A model of pyseext's asynchronous UI synchronisation: the store load    *)
(* counter protocol of StoreHelper and the value-assignment state machine  *)
(* of FieldHelper.set_field_value, run by one sequential client against a  *)
(* live UI whose stores load on their own timeline.                        *)
(***************************************************************************)
EXTENDS Integers, Sequences, FiniteSets, TLC

(* ------------------------------ bounds --------------------------------- *)

\* The load counter is capped: a fetch completes only below the cap.
MaxLoad == 2
\* Fetches in flight on one store that the client's current call did not start.
MaxOther == 1
\* Poll ticks a wait makes before its timeout elapses.
MaxTicks == 2
\* The longest timeout of a wait for a tree node, in tenths of a second.
MaxTimeout == 40
\* The longest time a load of the tree takes when it completes during a call.
MaxLoadTime == 2
\* Loads the application starts on the tree while one call runs.
MaxTreeLoads == 1
\* The longest time one call of a wait's expectation takes, in tenths of a second.
MaxCost == 1

\* The longest list and the largest dict passed to set_form_values.
MaxLen == 2

(* --------------------------- the live UI ------------------------------- *)

\* Store holder addresses (component queries).
CQs == {"cqA", "cqB"}

\* The store held by cqB is configured with autoLoad, the one of cqA is not.
StoreAutoLoad == [cq \in CQs |-> cq = "cqB"]

Dog == {<<"name", "Dog">>}
Stoat == {<<"name", "Stoat">>, <<"id", "123">>, <<"isSpecial", "true">>}
Weasel == {<<"name", "Weasel">>, <<"id", "124">>, <<"isSpecial", "true">>}

\* What a completed fetch materialises in each store, in source order.
ServerData == [cq \in CQs |-> IF cq = "cqA" THEN <<Dog, Stoat, Weasel>> ELSE <<Dog>>]

VARIABLES
    loadCount,      \* store.loadCount of each store holder
    pending,        \* fetches in flight on each store
    ownPending,     \* one fetch in flight on the target store is the running call's own
    records,        \* the materialised records of each store
    applied,        \* the value the running operation has applied to its field, None before
    call,           \* the running operation and its arguments
    status,         \* "idle", "running", "returned" or "raised"
    prog,           \* the calls the running operation makes, in order
    pc,             \* index into prog of the next call
    ticks,          \* polls made so far by the wait at pc
    error,          \* the exception raised, "" when none
    selected,       \* was_value_selected of the last selection
    log,            \* the steps performed by the running operation
    started,        \* the running call's action has started a fetch
    ownDone,        \* a fetch the running call's action started has completed
    otherDone,      \* another fetch completed on the target store since the call or its reset
    freshLoad,      \* some fetch completed on the target store since the call or its reset
    countAtCall,    \* the target store's load counter when the call began
    is_remote,      \* driver._is_remote: the browser is driven over a remote connection
    events,         \* the input events the running operation has delivered to the browser
    treeLoading,    \* isTreeLoading: some part of the tree is loading
    loadAge,        \* the time the tree's load has been in progress during the running call
    nodePresent,    \* the tree holds the node that node_text_or_data identifies
    everPresent,    \* the tree held that node at some time during the running call
    envLoads,       \* loads the application started on the tree during the running call
    now,            \* time.monotonic() since the running call began, in tenths of a second
    at,             \* the statement of wait_for_tree_node the client is at
    ret,            \* where the running wait_until_tree_not_loading returns to
    end_time,       \* end_time of the wait for the node
    wait_end_time,  \* end_time of the running wait_until_tree_not_loading
    reloads,        \* parent reloads the running call has triggered
    polls,          \* poll ticks the running call has begun
    tick,           \* what the current poll tick has done
    sawLoading,     \* the running call has seen the tree loading
    result,         \* what wait_for_tree_node returned: "", "element" or "None"
    request,        \* the last lookup or reload request the running call sent to the tree
    evaluation,     \* the running evaluation of TreeNotLoadingExpectation
    matches,        \* live components that match the address of the field, visible and enabled
    everMatched,    \* that address had a match at some time during the running call
    has_focus,      \* the field has the focus
    focusRequests,  \* focus requests the running call has sent to the field
    lookup,         \* what the running call looks up: the address and the key
    form_values,    \* the value of each field of the form
    focus_seen,     \* what does_field_have_focus last returned to the running call
    exc,            \* the exception object the running call has raised
    scripts         \* the helper scripts of the page and what the running constructor did

storeVars == <<loadCount, pending, ownPending, records>>
uiVars == <<applied>>
clientVars == <<call, status, prog, pc, ticks, error, selected, log>>
histVars == <<started, ownDone, otherDone, freshLoad, countAtCall>>
inputVars == <<is_remote, events>>
treeEnvVars == <<treeLoading, loadAge, nodePresent, everPresent, envLoads>>
treeCallVars ==
    <<now, at, ret, end_time, wait_end_time, reloads, polls, tick, sawLoading, result>>
treeObsVars == <<request, evaluation>>
treeVars == <<treeEnvVars, treeCallVars, treeObsVars>>
waitVars ==
    <<matches, everMatched, has_focus, focusRequests, lookup, form_values, focus_seen, exc,
      scripts>>
vars == <<storeVars, uiVars, clientVars, histVars, inputVars, treeVars, waitVars>>


(* ----------------------------- values ---------------------------------- *)

\* A Python value: a string (s, its characters), a number (n), None, or a
\* dict used as a match payload.
StrV(s) == [kind |-> "str", s |-> s, n |-> 0, payload |-> {}]
NumV(n) == [kind |-> "num", s |-> <<>>, n |-> n, payload |-> {}]
DictV(payload) == [kind |-> "dict", s |-> <<>>, n |-> 0, payload |-> payload]
None == [kind |-> "none", s |-> <<>>, n |-> 0, payload |-> {}]
ListV(items) == [kind |-> "list", s |-> items, n |-> 0, payload |-> {}]

\* A string written as one piece.
Word(w) == StrV(<<w>>)

\* Python truthiness of a value.
Truthy(v) ==
    CASE v.kind = "none" -> FALSE
      [] v.kind = "str" -> v.s # <<>>
      [] v.kind = "dict" -> v.payload # {}
      [] v.kind = "num" -> v.n # 0
      [] OTHER -> TRUE

\* The decimal digits of a natural number, as str(n) writes them.
RECURSIVE Digits(_)
Digits(n) ==
    LET d == <<"0", "1", "2", "3", "4", "5", "6", "7", "8", "9">>[(n % 10) + 1]
    IN  IF n < 10 THEN <<d>> ELSE Digits(n \div 10) \o <<d>>

\* type_into_element's coercion of its text argument: None becomes the
\* empty string and everything else goes through str(text).
str(v) ==
    CASE v.kind = "none" -> <<>>
      [] v.kind = "str" -> v.s
      [] v.kind = "num" -> Digits(v.n)
      [] OTHER -> <<"{", "}">>

\* A value specification as the caller passes it: obj is the object itself
\* and, when it is a dict, value and filterText are its members of that
\* name (None when it has none).
Arg(obj, hasValue, value, hasFilterText, filterText) ==
    [obj |-> obj, hasValue |-> hasValue, value |-> value,
     hasFilterText |-> hasFilterText, filterText |-> filterText]
Plain(obj) == Arg(obj, FALSE, None, FALSE, None)

Sto == <<"S", "t", "o">>
StoatPayload == {<<"name", "Stoat">>, <<"id", "123">>}
CatPayload == {<<"name", "Cat">>}
SpecialPayload == {<<"isSpecial", "true">>}

\* The data the client passes to check_store_contains.
StoreData == { <<DictV(StoatPayload)>>, <<DictV(Dog)>> }

\* The value specifications the client passes.
Values ==
    { Plain(StrV(Sto)),
      Plain(NumV(42)),
      Plain(DictV(StoatPayload)),
      Plain(DictV(CatPayload)),
      Plain(DictV(SpecialPayload)),
      Arg(DictV({}), TRUE, DictV(StoatPayload), TRUE, StrV(Sto)),
      Arg(DictV({}), TRUE, DictV(CatPayload), TRUE, StrV(Sto)),
      Arg(DictV({}), TRUE, DictV(StoatPayload), FALSE, None),
      Arg(DictV({}), TRUE, DictV(StoatPayload), TRUE, StrV(<<>>)),
      Arg(DictV({}), TRUE, StrV(Sto), FALSE, None) }

\* Core.try_get_object_member(obj, member, default)
try_get_object_member(arg, member, default) ==
    IF arg.obj.kind = "dict" /\ member = "value" /\ arg.hasValue THEN arg.value
    ELSE IF arg.obj.kind = "dict" /\ member = "filterText" /\ arg.hasFilterText
         THEN arg.filterText
    ELSE default

(* ----------------------------- fields ---------------------------------- *)

\* A field as the UI reports it: its xtype (a sequence of name parts, <<>>
\* when the form holds no such field), the Ext classes it is an instance
\* of, and whether it is a remotely filtered combobox.
Field(xtype, classes, remote) ==
    [xtype |-> xtype, classes |-> classes, remote |-> remote]

Fields ==
    { Field(<<>>, {}, FALSE),
      Field(<<"textfield">>, {"Text"}, FALSE),
      Field(<<"numberfield">>, {"Text", "Number"}, FALSE),
      Field(<<"combobox">>, {"Text", "ComboBox"}, FALSE),
      Field(<<"combobox">>, {"Text", "ComboBox"}, TRUE),
      Field(<<"checkbox">>, {"Checkbox"}, FALSE),
      Field(<<"radio">>, {"Checkbox", "Radio"}, FALSE),
      Field(<<"radiogroup">>, {}, FALSE),
      Field(<<"my", "radiogroup">>, {}, FALSE),
      Field(<<"radiogroup", "panel">>, {}, FALSE),
      Field(<<"displayfield">>, {}, FALSE) }

get_field_xtype(f) == f.xtype
is_field_a_combobox(f) == "ComboBox" \in f.classes
is_field_a_text_field(f) == "Text" \in f.classes
is_field_a_checkbox(f) == "Checkbox" \in f.classes
is_field_a_radio_field(f) == "Radio" \in f.classes
is_field_remotely_filtered_combobox(f) == f.remote

\* str.endswith on an xtype
endswith(xtype, suffix) ==
    /\ Len(xtype) >= Len(suffix)
    /\ SubSeq(xtype, Len(xtype) - Len(suffix) + 1, Len(xtype)) = suffix

(* --------------------------- input events ------------------------------ *)

\* One input event: what it does (ev) and, for a key, the key; a pause
\* carries whether it is the requested delay or a random typing pause.
Event(ev, key) == [ev |-> ev, key |-> key]

\* An ActionChains instance: the actions queued on it and the events that
\* have reached the browser.
ActionChains(queue, sent) == [queue |-> queue, sent |-> sent]

\* ActionChains.move_to_element / click / pause: the action is queued.
move_to_element(ac) == ActionChains(Append(ac.queue, Event("move", "")), ac.sent)
click(ac) == ActionChains(Append(ac.queue, Event("click", "")), ac.sent)
pause(ac, what) == ActionChains(Append(ac.queue, Event("pause", what)), ac.sent)

\* ActionChains.send_keys(keys): one key press is queued for every
\* character of the keys, in order.
send_keys(ac, keys) ==
    ActionChains(ac.queue \o [i \in 1..Len(keys) |-> Event("key", keys[i])], ac.sent)

\* ActionChains.perform: the queued actions reach the browser, in order, and
\* the queue is empty again.
perform(ac) == ActionChains(<<>>, ac.sent \o ac.queue)

\* WebElement.clear: sent to the browser at once, not through the chain.
clear(ac) == ActionChains(ac.queue, Append(ac.sent, Event("clear", "")))

\* Mutant: every character is sent twice.
InputHelper_type_twice(ac, text, disable_realistic_typing, remote) ==
    perform(send_keys(send_keys(ac, text), text))

\* InputHelper.type(text, disable_realistic_typing)
RECURSIVE InputHelper_type(_, _, _, _)
InputHelper_type(ac, text, disable_realistic_typing, remote) ==
    IF ~disable_realistic_typing /\ ~remote
    THEN IF text = <<>> THEN ac
         ELSE InputHelper_type(
                  perform(pause(send_keys(ac, <<Head(text)>>), "random")),
                  Tail(text), disable_realistic_typing, remote)
    ELSE perform(send_keys(ac, text))

\* InputHelper.type_tab(pause_time); a pause time of 0 stands for None, for
\* which the pause is a random one.
InputHelper_type_tab_for(ac, pause_time, remote) ==
    LET keyed == send_keys(ac, <<"TAB">>)
        what == IF pause_time = 0 THEN "random" ELSE "pause_time"
    IN  perform(IF ~remote THEN pause(keyed, what) ELSE keyed)

\* InputHelper.type_tab()
InputHelper_type_tab(ac, remote) == InputHelper_type_tab_for(ac, 0, remote)

\* Mutant: the characters are typed before the element is clicked.
InputHelper_type_into_element_type_first(ac, value, delay, tab_off, disable_realistic_typing, clear_first, remote) ==
    LET text == str(value)
        cleared == IF clear_first THEN clear(ac) ELSE ac
        typed == InputHelper_type(cleared, text, disable_realistic_typing, remote)
        focused == perform(click(move_to_element(typed)))
        delayed == IF delay # 0 THEN perform(pause(focused, "delay")) ELSE focused
    IN  IF tab_off THEN InputHelper_type_tab(delayed, remote) ELSE delayed

\* InputHelper.type_into_element(element, text, delay, tab_off,
\* disable_realistic_typing, clear_first); a delay of 0 stands for None.
InputHelper_type_into_element(ac, value, delay, tab_off, disable_realistic_typing, clear_first, remote) ==
    LET text == str(value)
        cleared == IF clear_first THEN clear(ac) ELSE ac
        focused == perform(click(move_to_element(cleared)))
        typed == InputHelper_type(focused, text, disable_realistic_typing, remote)
        delayed == IF delay # 0 THEN perform(pause(typed, "delay")) ELSE typed
    IN  IF tab_off THEN InputHelper_type_tab(delayed, remote) ELSE delayed

\* The characters keyed by a sequence of events, in order (the tab key apart).
RECURSIVE Keyed(_)
Keyed(evs) ==
    IF evs = <<>> THEN <<>>
    ELSE (IF Head(evs).ev = "key" /\ Head(evs).key # "TAB"
          THEN <<Head(evs).key>> ELSE <<>>) \o Keyed(Tail(evs))

\* What a text input shows after the events: clearing empties it, a key
\* appends its character.
RECURSIVE FieldText(_, _)
FieldText(before, evs) ==
    IF evs = <<>> THEN before
    ELSE FieldText(
            CASE Head(evs).ev = "clear" -> <<>>
              [] Head(evs).ev = "key" /\ Head(evs).key # "TAB" ->
                    Append(before, Head(evs).key)
              [] OTHER -> before,
            Tail(evs))

(* ------------------- the calls an operation makes ---------------------- *)

\* One call made by the client: the script, wait or input helper called
\* (call), the Python method that issues it (by), the method that called
\* that one (via), the address it is given, its value argument and, for
\* type_into_element, the disable_realistic_typing flag; delay (0 for None),
\* tab_off and clear_first are the other parameters of type_into_element,
\* at their defaults unless the caller passes them.
Step(c, by, via, cq, arg, opt) ==
    [call |-> c, by |-> by, via |-> via, cq |-> cq, arg |-> arg, opt |-> opt,
     delay |-> 0, tab_off |-> FALSE, clear_first |-> TRUE]

\* raise <exception>
Raise(exception, by, cq) == Step("raise", by, by, cq, StrV(<<exception>>), FALSE)

\* Mutant: the reload script is sent in place of the reset script.
reset_store_load_count_wrong_script(via, cq) ==
    << Step("reload", "reset_store_load_count", via, cq, None, FALSE) >>

\* StoreHelper.reset_store_load_count
reset_store_load_count(via, cq) ==
    << Step("resetStoreLoadCount", "reset_store_load_count", via, cq, None, FALSE) >>

\* Mutant: the call returns without waiting for the store.
wait_for_store_loaded_no_wait(via, cq) == << >>

\* StoreHelper.wait_for_store_loaded
wait_for_store_loaded(via, cq) ==
    << Step("waitForStoreLoaded", "wait_for_store_loaded", via, cq, None, FALSE) >>

\* Mutant: the reset script is sent in place of the reload script.
trigger_reload_wrong_script(via, cq) ==
    << Step("resetStoreLoadCount", "trigger_reload", via, cq, None, FALSE) >>

\* StoreHelper.trigger_reload
trigger_reload(via, cq) ==
    << Step("reload", "trigger_reload", via, cq, None, FALSE) >>

\* Mutant: the counter is reset after the reload is triggered.
trigger_reload_and_wait_reset_late(cq) ==
    trigger_reload("trigger_reload_and_wait", cq)
    \o reset_store_load_count("trigger_reload_and_wait", cq)
    \o wait_for_store_loaded("trigger_reload_and_wait", cq)

\* Mutant: the counter is not reset.
trigger_reload_and_wait_no_reset(cq) ==
    trigger_reload("trigger_reload_and_wait", cq)
    \o wait_for_store_loaded("trigger_reload_and_wait", cq)

\* Mutant: the reload is triggered a second time before the wait.
trigger_reload_and_wait_two_reloads(cq) ==
    reset_store_load_count("trigger_reload_and_wait", cq)
    \o trigger_reload("trigger_reload_and_wait", cq)
    \o trigger_reload("trigger_reload_and_wait", cq)
    \o wait_for_store_loaded("trigger_reload_and_wait", cq)

\* StoreHelper.trigger_reload_and_wait
trigger_reload_and_wait(cq) ==
    reset_store_load_count("trigger_reload_and_wait", cq)
    \o trigger_reload("trigger_reload_and_wait", cq)
    \o wait_for_store_loaded("trigger_reload_and_wait", cq)

\* Mutant: the input element is looked up without the wait for the field.
find_field_input_element_no_wait(cq) ==
    << Step("findFieldInputElement", "find_field_input_element", "set_field_value",
            cq, None, FALSE) >>

\* FieldHelper.find_field_input_element
find_field_input_element(cq) ==
    << Step("wait_for_single_query", "find_field_input_element", "set_field_value",
            cq, None, FALSE),
       Step("findFieldInputElement", "find_field_input_element", "set_field_value",
            cq, None, FALSE) >>

\* InputHelper.type_into_element(element, text, disable_realistic_typing)
type_into_element(cq, text, disable_realistic_typing) ==
    << Step("type_into_element", "type_into_element", "set_field_value",
            cq, text, disable_realistic_typing) >>

\* InputHelper.type_into_element called with all of its parameters.
type_into_element_with(cq, text, delay, tab_off, disable_realistic_typing, clear_first) ==
    << [call |-> "type_into_element", by |-> "type_into_element", via |-> "client",
        cq |-> cq, arg |-> text, opt |-> disable_realistic_typing,
        delay |-> delay, tab_off |-> tab_off, clear_first |-> clear_first] >>

\* InputHelper.type_tab
type_tab(cq) ==
    << Step("type_tab", "type_tab", "set_field_value", cq, None, FALSE) >>

\* Core.wait_for_no_ajax_requests_in_progress
wait_for_no_ajax_requests_in_progress(cq) ==
    << Step("wait_for_no_ajax_requests_in_progress",
            "wait_for_no_ajax_requests_in_progress", "set_field_value",
            cq, None, FALSE) >>

\* Mutant: the script is given an empty match payload.
select_combobox_value_any_record(cq, data) ==
    wait_for_store_loaded("select_combobox_value", cq)
    \o << Step("selectComboBoxValue", "select_combobox_value", "set_field_value",
               cq, DictV({}), FALSE) >>

\* Mutant: the record is selected without the wait for the store.
select_combobox_value_no_wait(cq, data) ==
    << Step("selectComboBoxValue", "select_combobox_value", "set_field_value",
            cq, data, FALSE) >>

\* StoreHelper.check_store_contains(store_holder_cq, data,
\* should_only_contain_specified_data)
check_store_contains(cq, data, should_only_contain_specified_data) ==
    wait_for_store_loaded("check_store_contains", cq)
    \o << Step("checkStoreContains", "check_store_contains", "client",
               cq, ListV(data), should_only_contain_specified_data) >>

\* FieldHelper.select_combobox_value
select_combobox_value(cq, data) ==
    wait_for_store_loaded("select_combobox_value", cq)
    \o << Step("selectComboBoxValue", "select_combobox_value", "set_field_value",
               cq, data, FALSE) >>

\* if not was_value_selected: raise FieldHelper.RecordNotFoundException
raise_unless_selected(cq, data) ==
    << Step("raise_unless_selected", "set_field_value", "set_field_value",
            cq, data, FALSE) >>

\* Mutant: the value is typed into the field instead of being assigned.
set_field_value_directly_typed(cq, value) == type_into_element(cq, value, FALSE)

\* FieldHelper.set_field_value_directly
set_field_value_directly(cq, value) ==
    << Step("setFieldValue", "set_field_value_directly", "set_field_value",
            cq, value, FALSE) >>

\* Mutant: the tab is typed with the filter text, before the waits.
set_remote_combobox_scalar_tab_first(cq, field_value) ==
    reset_store_load_count("set_field_value", cq)
    \o find_field_input_element(cq)
    \o type_into_element(cq, field_value, TRUE)
    \o type_tab(cq)
    \o wait_for_store_loaded("set_field_value", cq)
    \o wait_for_no_ajax_requests_in_progress(cq)

\* FieldHelper.set_field_value, remotely filtered combobox, scalar value
set_remote_combobox_scalar(cq, field_value) ==
    reset_store_load_count("set_field_value", cq)
    \o find_field_input_element(cq)
    \o type_into_element(cq, field_value, TRUE)
    \o wait_for_store_loaded("set_field_value", cq)
    \o wait_for_no_ajax_requests_in_progress(cq)
    \o type_tab(cq)

\* Mutant: the selection is made right after typing, without the waits.
set_remote_combobox_record_no_wait(cq, value, field_value) ==
    LET filter_text == try_get_object_member(value, "filterText", None)
    IN  IF ~Truthy(filter_text)
        THEN << Raise("ArgumentException", "set_field_value", cq) >>
        ELSE reset_store_load_count("set_field_value", cq)
             \o find_field_input_element(cq)
             \o type_into_element(cq, filter_text, TRUE)
             \o select_combobox_value(cq, field_value)
             \o raise_unless_selected(cq, field_value)

\* Mutant: the filter text is tested after the counter is reset.
set_remote_combobox_record_check_late(cq, value, field_value) ==
    LET filter_text == try_get_object_member(value, "filterText", None)
    IN  reset_store_load_count("set_field_value", cq)
        \o (IF ~Truthy(filter_text)
            THEN << Raise("ArgumentException", "set_field_value", cq) >>
            ELSE find_field_input_element(cq)
                 \o type_into_element(cq, filter_text, TRUE)
                 \o wait_for_store_loaded("set_field_value", cq)
                 \o wait_for_no_ajax_requests_in_progress(cq)
                 \o select_combobox_value(cq, field_value)
                 \o raise_unless_selected(cq, field_value))

\* FieldHelper.set_field_value, remotely filtered combobox, record value
set_remote_combobox_record(cq, value, field_value) ==
    LET filter_text == try_get_object_member(value, "filterText", None)
    IN  IF ~Truthy(filter_text)
        THEN << Raise("ArgumentException", "set_field_value", cq) >>
        ELSE reset_store_load_count("set_field_value", cq)
             \o find_field_input_element(cq)
             \o type_into_element(cq, filter_text, TRUE)
             \o wait_for_store_loaded("set_field_value", cq)
             \o wait_for_no_ajax_requests_in_progress(cq)
             \o select_combobox_value(cq, field_value)
             \o raise_unless_selected(cq, field_value)

\* Mutant: a local combobox is handled like a remotely filtered one.
set_local_combobox_as_remote(cq, field_value) ==
    IF field_value.kind # "dict"
    THEN set_remote_combobox_scalar(cq, field_value)
    ELSE select_combobox_value(cq, field_value)
         \o raise_unless_selected(cq, field_value)

\* Mutant: the outcome of the selection is ignored.
set_local_combobox_no_raise(cq, field_value) ==
    IF field_value.kind # "dict"
    THEN find_field_input_element(cq)
         \o type_into_element(cq, field_value, FALSE)
         \o type_tab(cq)
    ELSE select_combobox_value(cq, field_value)

\* FieldHelper.set_field_value, combobox with local data
set_local_combobox(cq, field_value) ==
    IF field_value.kind # "dict"
    THEN find_field_input_element(cq)
         \o type_into_element(cq, field_value, FALSE)
         \o type_tab(cq)
    ELSE select_combobox_value(cq, field_value)
         \o raise_unless_selected(cq, field_value)

\* Mutant: the xtype is not tested before the field is used.
set_field_value_no_found_check(cq, f, value) ==
    LET field_xtype == get_field_xtype(f)
        field_value == try_get_object_member(value, "value", value.obj)
    IN  IF is_field_a_combobox(f)
        THEN IF is_field_remotely_filtered_combobox(f)
             THEN IF field_value.kind # "dict"
                  THEN set_remote_combobox_scalar(cq, field_value)
                  ELSE set_remote_combobox_record(cq, value, field_value)
             ELSE set_local_combobox(cq, field_value)
        ELSE IF is_field_a_text_field(f)
        THEN find_field_input_element(cq)
             \o type_into_element(cq, field_value, FALSE)
        ELSE IF \/ endswith(field_xtype, <<"radiogroup">>)
                \/ is_field_a_checkbox(f)
                \/ is_field_a_radio_field(f)
        THEN set_field_value_directly(cq, field_value)
        ELSE << Raise("UnsupportedFieldXTypeException", "set_field_value", cq) >>

\* Mutant: the xtype is compared with 'radiogroup' instead of its suffix.
set_field_value_radiogroup_exact(cq, f, value) ==
    LET field_xtype == get_field_xtype(f)
        field_value == try_get_object_member(value, "value", value.obj)
    IN  IF field_xtype # <<>>
        THEN IF is_field_a_combobox(f)
             THEN IF is_field_remotely_filtered_combobox(f)
                  THEN IF field_value.kind # "dict"
                       THEN set_remote_combobox_scalar(cq, field_value)
                       ELSE set_remote_combobox_record(cq, value, field_value)
                  ELSE set_local_combobox(cq, field_value)
             ELSE IF is_field_a_text_field(f)
             THEN find_field_input_element(cq)
                  \o type_into_element(cq, field_value, FALSE)
             ELSE IF \/ field_xtype = <<"radiogroup">>
                     \/ is_field_a_checkbox(f)
                     \/ is_field_a_radio_field(f)
             THEN set_field_value_directly(cq, field_value)
             ELSE << Raise("UnsupportedFieldXTypeException", "set_field_value", cq) >>
        ELSE << Raise("FieldNotFoundException", "set_field_value", cq) >>

\* Mutant: the text-field test comes before the combobox test.
set_field_value_text_first(cq, f, value) ==
    LET field_xtype == get_field_xtype(f)
        field_value == try_get_object_member(value, "value", value.obj)
    IN  IF field_xtype = <<>>
        THEN << Raise("FieldNotFoundException", "set_field_value", cq) >>
        ELSE IF is_field_a_text_field(f)
        THEN find_field_input_element(cq) \o type_into_element(cq, field_value, FALSE)
        ELSE IF is_field_a_combobox(f)
        THEN set_local_combobox(cq, field_value)
        ELSE set_field_value_directly(cq, field_value)

\* FieldHelper.set_field_value(form_cq, name, value): the field lives at
\* get_field_component_query(form_cq, name) = cq and is the component f.
set_field_value(cq, f, value) ==
    LET field_xtype == get_field_xtype(f)
        field_value == try_get_object_member(value, "value", value.obj)
    IN  IF field_xtype # <<>>
        THEN IF is_field_a_combobox(f)
             THEN IF is_field_remotely_filtered_combobox(f)
                  THEN IF field_value.kind # "dict"
                       THEN set_remote_combobox_scalar(cq, field_value)
                       ELSE set_remote_combobox_record(cq, value, field_value)
                  ELSE set_local_combobox(cq, field_value)
             ELSE IF is_field_a_text_field(f)
             THEN find_field_input_element(cq)
                  \o type_into_element(cq, field_value, FALSE)
             ELSE IF \/ endswith(field_xtype, <<"radiogroup">>)
                     \/ is_field_a_checkbox(f)
                     \/ is_field_a_radio_field(f)
             THEN set_field_value_directly(cq, field_value)
             ELSE << Raise("UnsupportedFieldXTypeException", "set_field_value", cq) >>
        ELSE << Raise("FieldNotFoundException", "set_field_value", cq) >>

(* ------------------- the client-side helper scripts -------------------- *)

\* PySeExt.StoreHelper.resetStoreLoadCount: the counter is set to zero unless
\* the store is configured with autoLoad, and then nothing is done.
resetStoreLoadCount(counts, cq) ==
    IF StoreAutoLoad[cq] THEN counts ELSE [counts EXCEPT ![cq] = 0]

\* store.isLoaded(): the load count is greater than zero.
isLoaded(counts, cq) == counts[cq] > 0

\* A record matches a payload when every key of the payload is present in
\* the record with an equal value.
Matches(record, payload) == payload \subseteq record

\* PySeExt.FieldHelper.selectComboBoxValue: the index of the first record of
\* the store, in source order, that matches the payload; 0 when none does.
findRecord(recs, payload) ==
    IF \E i \in 1..Len(recs) : Matches(recs[i], payload)
    THEN CHOOSE i \in 1..Len(recs) :
            /\ Matches(recs[i], payload)
            /\ \A j \in 1..(i - 1) : ~Matches(recs[j], payload)
    ELSE 0

(* ------------------------------ Init ----------------------------------- *)

\* A poll tick that has done nothing yet.
NoTick == [lookups |-> 0, found |-> FALSE, reloads |-> 0]
NoRequest == [script |-> "", loading |-> FALSE, count |-> 0]
NoEvaluation == [observations |-> 0, first |-> 0, second |-> 0, done |-> FALSE, value |-> FALSE]

\* The names of the fields of the form.
FormFields == {"name", "species"}

\* No lookup is under way, and no exception object has been raised.
NoLookup == [kind |-> "", address |-> None, key |-> None, data |-> None]
NoException == [class |-> "", message |-> <<>>, args |-> <<>>, attrs |-> <<>>]

NoCall == [op |-> "", cq |-> "", field |-> Field(<<>>, {}, FALSE), value |-> Plain(None)]

\* The helper classes whose scripts the page can hold.
ClassNames == {"FormHelper", "GridHelper"}
\* A page that holds no helper script, and a client that has done nothing:
\* defined says whether globalThis.PySeExt.<class> is defined, injected
\* whether the script of the class has been sent to the page; loads and
\* tests count the script loads and the tests of the running constructor,
\* and seen is what its last test returned.
NoScript ==
    [defined |-> [c \in ClassNames |-> FALSE], injected |-> [c \in ClassNames |-> FALSE],
     loads |-> 0, tests |-> 0, seen |-> FALSE]

InitState ==
    /\ loadCount = [cq \in CQs |-> 0]
    /\ pending = [cq \in CQs |-> IF StoreAutoLoad[cq] THEN 1 ELSE 0]
    /\ ownPending = FALSE
    /\ records = [cq \in CQs |-> <<>>]
    /\ applied = None
    /\ call = NoCall
    /\ status = "idle"
    /\ prog = <<>>
    /\ pc = 1
    /\ ticks = 0
    /\ error = ""
    /\ selected = FALSE
    /\ log = <<>>
    /\ started = FALSE
    /\ ownDone = FALSE
    /\ otherDone = FALSE
    /\ freshLoad = FALSE
    /\ countAtCall = 0
    /\ events = <<>>
    /\ treeLoading = FALSE /\ loadAge = 0 /\ nodePresent = FALSE /\ everPresent = FALSE
    /\ envLoads = 0
    /\ request = NoRequest /\ evaluation = NoEvaluation
    /\ matches = 1 /\ everMatched = TRUE /\ has_focus = FALSE /\ focusRequests = 0
    /\ lookup = NoLookup /\ exc = NoException /\ scripts = NoScript
    /\ form_values = [name \in FormFields |-> None] /\ focus_seen = FALSE
    /\ now = 0 /\ at = "" /\ ret = ""
    /\ end_time = 0 /\ wait_end_time = 0
    /\ reloads = 0 /\ polls = 0 /\ tick = NoTick
    /\ sawLoading = FALSE /\ result = ""

\* The client drives a local browser.
Init == InitState /\ is_remote = FALSE

(* ------------------------- the client's calls -------------------------- *)

\* The client begins an operation: its calls are laid out and nothing of it
\* has run yet.
Begin(op, cq, f, value, program) ==
    /\ status = "idle"
    /\ \A c \in CQs : pending[c] <= MaxOther
    /\ call' = [op |-> op, cq |-> cq, field |-> f, value |-> value]
    /\ status' = "running"
    /\ prog' = program
    /\ pc' = 1
    /\ ticks' = 0
    /\ error' = ""
    /\ selected' = FALSE
    /\ log' = <<>>
    /\ started' = FALSE
    /\ ownDone' = FALSE
    /\ otherDone' = FALSE
    /\ freshLoad' = FALSE
    /\ countAtCall' = loadCount[cq]
    /\ ownPending' = FALSE
    /\ applied' = None
    /\ events' = <<>>
    /\ UNCHANGED <<loadCount, pending, records, is_remote, treeVars, waitVars>>

\* The client calls reset_store_load_count, once or twice in a row.
Call_reset_store_load_count(cq, twice) ==
    Begin("reset_store_load_count", cq, NoCall.field, NoCall.value,
          reset_store_load_count("client", cq)
          \o (IF twice THEN reset_store_load_count("client", cq) ELSE <<>>))

Call_trigger_reload(cq) ==
    Begin("trigger_reload", cq, NoCall.field, NoCall.value,
          trigger_reload("client", cq))

Call_wait_for_store_loaded(cq) ==
    Begin("wait_for_store_loaded", cq, NoCall.field, NoCall.value,
          wait_for_store_loaded("client", cq))

Call_trigger_reload_and_wait(cq) ==
    Begin("trigger_reload_and_wait", cq, NoCall.field, NoCall.value,
          trigger_reload_and_wait(cq))

Call_check_store_contains(cq, data, should_only_contain_specified_data) ==
    Begin("check_store_contains", cq, NoCall.field, Plain(ListV(data)),
          check_store_contains(cq, data, should_only_contain_specified_data))

Call_set_field_value(cq, f, value) ==
    Begin("set_field_value", cq, f, value, set_field_value(cq, f, value))

(* ------------------------ running one call ----------------------------- *)

Running == status = "running" /\ pc <= Len(prog)
Cur == prog[pc]

\* The call at pc has returned: the next one is up.
Advance ==
    /\ pc' = pc + 1
    /\ ticks' = 0
    /\ log' = Append(log, Cur)
    /\ UNCHANGED <<call, status, prog, error>>

\* Mutant: the exception is swallowed and the operation goes on.
Fail_swallowed(exception) == Advance

\* The call at pc raises: the operation ends with the exception.
Fail(exception) ==
    /\ status' = "raised"
    /\ error' = exception
    /\ UNCHANGED <<call, prog, pc, ticks, log>>

\* Mutant: a wait that polls without a timeout.
Poll_no_timeout(cond) ==
    IF cond THEN Advance
    ELSE UNCHANGED <<call, status, prog, pc, ticks, error, log>>

\* One poll of a wait whose condition is cond: the wait returns when the
\* condition is seen to hold, and times out after MaxTicks polls.
Poll(cond) ==
    IF cond THEN Advance
    ELSE IF ticks < MaxTicks
         THEN /\ ticks' = ticks + 1
              /\ UNCHANGED <<call, status, prog, pc, error, log>>
         ELSE Fail("TimeoutException")

\* The running call's action starts a fetch on its store.
StartOwnFetch(cq) ==
    /\ pending' = [pending EXCEPT ![cq] = @ + 1]
    /\ ownPending' = TRUE
    /\ started' = TRUE

Do_resetStoreLoadCount ==
    /\ Running /\ Cur.call = "resetStoreLoadCount"
    /\ loadCount' = resetStoreLoadCount(loadCount, Cur.cq)
    /\ freshLoad' = FALSE
    /\ otherDone' = FALSE
    /\ Advance
    /\ UNCHANGED <<pending, ownPending, records, applied, selected,
                   started, ownDone, countAtCall>>
    /\ UNCHANGED <<inputVars, treeVars, waitVars>>

Do_reload ==
    /\ Running /\ Cur.call = "reload"
    /\ StartOwnFetch(Cur.cq)
    /\ Advance
    /\ UNCHANGED <<loadCount, records, applied, selected,
                   ownDone, otherDone, freshLoad, countAtCall>>
    /\ UNCHANGED <<inputVars, treeVars, waitVars>>

Do_waitForStoreLoaded ==
    /\ Running /\ Cur.call = "waitForStoreLoaded"
    /\ Poll(isLoaded(loadCount, Cur.cq))
    /\ UNCHANGED <<storeVars, applied, selected, histVars>>
    /\ UNCHANGED <<inputVars, treeVars, waitVars>>

Do_wait_for_no_ajax_requests_in_progress ==
    /\ Running /\ Cur.call = "wait_for_no_ajax_requests_in_progress"
    /\ Poll(\A c \in CQs : pending[c] = 0)
    /\ UNCHANGED <<storeVars, applied, selected, histVars>>
    /\ UNCHANGED <<inputVars, treeVars, waitVars>>

Do_wait_for_single_query ==
    /\ Running /\ Cur.call = "wait_for_single_query"
    /\ \E seen \in BOOLEAN : Poll(seen)
    /\ UNCHANGED <<storeVars, applied, selected, histVars>>
    /\ UNCHANGED <<inputVars, treeVars, waitVars>>

Do_findFieldInputElement ==
    /\ Running /\ Cur.call = "findFieldInputElement"
    /\ Advance
    /\ UNCHANGED <<storeVars, applied, selected, histVars>>
    /\ UNCHANGED <<inputVars, treeVars, waitVars>>

Do_type_into_element ==
    /\ Running /\ Cur.call = "type_into_element"
    /\ LET ac == InputHelper_type_into_element(
                     ActionChains(<<>>, <<>>), Cur.arg, Cur.delay, Cur.tab_off,
                     Cur.opt, Cur.clear_first, is_remote)
       IN  /\ events' = events \o ac.sent
           /\ applied' = StrV(FieldText(IF applied.kind = "str" THEN applied.s ELSE <<>>,
                                        ac.sent))
    /\ UNCHANGED <<is_remote, treeVars, waitVars>>
    /\ \/ /\ call.field.remote
          /\ StartOwnFetch(Cur.cq)
       \/ UNCHANGED <<pending, ownPending, started>>
    /\ Advance
    /\ UNCHANGED <<loadCount, records, selected,
                   ownDone, otherDone, freshLoad, countAtCall>>

Do_type_tab ==
    /\ Running /\ Cur.call = "type_tab"
    /\ events' = events \o InputHelper_type_tab_for(ActionChains(<<>>, <<>>), Cur.delay,
                                                   is_remote).sent
    /\ Advance
    /\ UNCHANGED <<storeVars, applied, selected, histVars, is_remote, treeVars, waitVars>>

Do_selectComboBoxValue ==
    /\ Running /\ Cur.call = "selectComboBoxValue"
    /\ LET i == findRecord(records[Cur.cq], Cur.arg.payload)
       IN  /\ selected' = (i # 0)
           /\ applied' = IF i # 0 THEN DictV(records[Cur.cq][i]) ELSE applied
    /\ Advance
    /\ UNCHANGED <<storeVars, histVars>>
    /\ UNCHANGED <<inputVars, treeVars, waitVars>>

\* PySeExt.StoreHelper.checkStoreContains, at the browser: the records of
\* the store are read; the script throws unless every entry of the data
\* matches a record and, when only the data may be there, the store holds
\* no more records than the data has entries.
Do_checkStoreContains ==
    /\ Running /\ Cur.call = "checkStoreContains"
    /\ LET recs == records[Cur.cq]
           data == Cur.arg.s
       IN  IF /\ \A k \in 1..Len(data) : findRecord(recs, data[k].payload) # 0
              /\ Cur.opt => Len(recs) <= Len(data)
              THEN Advance
              ELSE Fail("JavascriptException")
    /\ UNCHANGED <<storeVars, applied, selected, histVars>>
    /\ UNCHANGED <<inputVars, treeVars, waitVars>>

Do_raise_unless_selected ==
    /\ Running /\ Cur.call = "raise_unless_selected"
    /\ IF selected THEN Advance ELSE Fail("RecordNotFoundException")
    /\ UNCHANGED <<storeVars, applied, selected, histVars>>
    /\ UNCHANGED <<inputVars, treeVars, waitVars>>

Do_setFieldValue ==
    /\ Running /\ Cur.call = "setFieldValue"
    /\ applied' = Cur.arg
    /\ Advance
    /\ UNCHANGED <<storeVars, selected, histVars>>
    /\ UNCHANGED <<inputVars, treeVars, waitVars>>

Do_raise ==
    /\ Running /\ Cur.call = "raise"
    /\ Fail(Cur.arg.s[1])
    /\ UNCHANGED <<storeVars, applied, selected, histVars>>
    /\ UNCHANGED <<inputVars, treeVars, waitVars>>

\* The operation's last call has returned: it returns to its caller.
Finish ==
    /\ status = "running" /\ pc > Len(prog)
    /\ status' = "returned"
    /\ UNCHANGED <<storeVars, applied, call, prog, pc, ticks, error,
                   selected, log, histVars>>
    /\ UNCHANGED <<inputVars, treeVars, waitVars>>

\* The caller has the outcome: the client is free for its next operation.
Return ==
    /\ status \in {"returned", "raised"}
    /\ status' = "idle"
    /\ call' = NoCall
    /\ prog' = <<>>
    /\ pc' = 1
    /\ ticks' = 0
    /\ error' = ""
    /\ selected' = FALSE
    /\ log' = <<>>
    /\ ownPending' = FALSE
    /\ started' = FALSE
    /\ ownDone' = FALSE
    /\ otherDone' = FALSE
    /\ freshLoad' = FALSE
    /\ countAtCall' = 0
    /\ applied' = None
    /\ events' = <<>>
    /\ now' = 0 /\ at' = "" /\ ret' = ""
    /\ end_time' = 0 /\ wait_end_time' = 0
    /\ reloads' = 0 /\ polls' = 0 /\ tick' = NoTick
    /\ sawLoading' = FALSE /\ result' = ""
    /\ request' = NoRequest /\ evaluation' = NoEvaluation
    /\ everMatched' = (matches > 0) /\ focusRequests' = 0
    /\ lookup' = NoLookup /\ exc' = NoException
    /\ scripts' = [scripts EXCEPT !.loads = 0, !.tests = 0, !.seen = FALSE]
    /\ focus_seen' = FALSE /\ form_values' = form_values
    /\ everPresent' = nodePresent
    /\ loadAge' = 0
    /\ envLoads' = 0
    /\ UNCHANGED <<loadCount, pending, records, is_remote, treeLoading, nodePresent,
                   matches, has_focus>>

(* --------------------- the UI's own timeline --------------------------- *)

\* A fetch in flight on cq completes: the store's load count goes up by one
\* and its records are the fetched ones. own says whether the fetch is the
\* one the running call's action started.
FetchCompletes(cq, own) ==
    /\ pending[cq] > 0
    /\ loadCount[cq] < MaxLoad
    /\ IF own
       THEN ownPending /\ cq = call.cq
       ELSE pending[cq] > (IF ownPending /\ cq = call.cq THEN 1 ELSE 0)
    /\ pending' = [pending EXCEPT ![cq] = @ - 1]
    /\ loadCount' = [loadCount EXCEPT ![cq] = @ + 1]
    /\ records' = [records EXCEPT ![cq] = ServerData[cq]]
    /\ ownPending' = IF own THEN FALSE ELSE ownPending
    /\ IF status # "idle" /\ cq = call.cq
       THEN /\ freshLoad' = TRUE
            /\ ownDone' = (ownDone \/ own)
            /\ otherDone' = (otherDone \/ ~own)
       ELSE UNCHANGED <<freshLoad, ownDone, otherDone>>
    /\ UNCHANGED <<applied, clientVars, started, countAtCall>>
    /\ UNCHANGED <<inputVars, treeVars, waitVars>>

\* The UI starts a fetch of its own on cq (a redundant or intermediate load).
UIStartsFetch(cq) ==
    /\ pending[cq] - (IF ownPending /\ cq = call.cq THEN 1 ELSE 0) < MaxOther
    /\ pending' = [pending EXCEPT ![cq] = @ + 1]
    /\ UNCHANGED <<loadCount, ownPending, records, applied, clientVars, histVars>>
    /\ UNCHANGED <<inputVars, treeVars, waitVars>>

\* The data of a store is cleared: its load count stays.
ClearData(cq) ==
    /\ records[cq] # <<>>
    /\ records' = [records EXCEPT ![cq] = <<>>]
    /\ UNCHANGED <<loadCount, pending, ownPending, applied, clientVars, histVars>>
    /\ UNCHANGED <<inputVars, treeVars, waitVars>>

Next ==
    \/ \E cq \in CQs, twice \in BOOLEAN : Call_reset_store_load_count(cq, twice)
    \/ \E cq \in CQs : Call_trigger_reload(cq)
    \/ \E cq \in CQs : Call_wait_for_store_loaded(cq)
    \/ \E cq \in CQs : Call_trigger_reload_and_wait(cq)
    \/ \E cq \in CQs, f \in Fields, value \in Values : Call_set_field_value(cq, f, value)
    \/ \E cq \in CQs, data \in StoreData, only \in BOOLEAN :
           Call_check_store_contains(cq, data, only)
    \/ Do_resetStoreLoadCount
    \/ Do_reload
    \/ Do_waitForStoreLoaded
    \/ Do_wait_for_no_ajax_requests_in_progress
    \/ Do_wait_for_single_query
    \/ Do_findFieldInputElement
    \/ Do_type_into_element
    \/ Do_type_tab
    \/ Do_selectComboBoxValue
    \/ Do_checkStoreContains
    \/ Do_raise_unless_selected
    \/ Do_setFieldValue
    \/ Do_raise
    \/ Finish
    \/ Return
    \/ \E cq \in CQs, own \in BOOLEAN : FetchCompletes(cq, own)
    \/ \E cq \in CQs : UIStartsFetch(cq)
    \/ \E cq \in CQs : ClearData(cq)

Spec == Init /\ [][Next]_vars

(* ----------------------- the typing operations ------------------------- *)

\* The texts and delays the client passes to type_into_element.
Texts == {StrV(Sto), StrV(<<>>), NumV(42), None}
Delays == {0, 1}

\* The fields that are typed into and the scalar values the client sets.
TypableFields == {f \in Fields : "Text" \in f.classes /\ ~f.remote}
ScalarValues == {v \in Values : try_get_object_member(v, "value", v.obj).kind \in {"str", "num"}}

\* The test session opens its driver, local or remote, before it calls a helper.
UseDriver(remote) ==
    /\ status = "idle"
    /\ is_remote # remote
    /\ is_remote' = remote
    /\ UNCHANGED <<storeVars, uiVars, clientVars, histVars, events, treeVars, waitVars>>

InitInput == InitState /\ is_remote = FALSE

\* The client calls InputHelper.type_into_element on the input element at cq.
Call_type_into_element(cq, text, delay, tab_off, disable_realistic_typing, clear_first) ==
    Begin("type_into_element", cq, NoCall.field, Plain(text),
          type_into_element_with(cq, text, delay, tab_off,
                                 disable_realistic_typing, clear_first))

\* The typing operations of a client, on a local and on a remote driver.
NextInput ==
    \/ \E text \in Texts, delay \in Delays, tab_off, disable, clear_first \in BOOLEAN :
          Call_type_into_element("cqA", text, delay, tab_off, disable, clear_first)
    \/ \E f \in TypableFields, value \in ScalarValues : Call_set_field_value("cqA", f, value)
    \/ Do_wait_for_single_query
    \/ Do_findFieldInputElement
    \/ Do_type_into_element
    \/ Do_type_tab
    \/ Finish
    \/ Return
    \/ \E remote \in BOOLEAN : UseDriver(remote)

SpecInput == InitInput /\ [][NextInput]_vars

(* --------------------- waiting for a tree node ------------------------- *)

\* Time is counted in tenths of a second.
\* wait_until_tree_not_loading: recheck_time_if_false, poll_frequecy and timeout.
Recheck == 2
TreePoll == 2
TreeTimeout == 300
\* The poll frequency of the WebDriverWait that wait_for_tree_node builds.
PollInterval == 5

\* The timeouts the client passes to wait_for_tree_node.
Timeouts == {MaxTimeout \div 2, MaxTimeout}

\* time.sleep(secs) when the clock reads t.
sleep_skipped(t, secs) == t
sleep(t, secs) == t + secs

\* The age of the tree's load after secs have passed; a load older than
\* MaxLoadTime does not complete while the call runs.
Aged(secs) ==
    IF ~treeLoading THEN 0
    ELSE IF loadAge + secs > MaxLoadTime THEN MaxLoadTime + 1 ELSE loadAge + secs

\* WebDriverWait.until gives up when the clock has passed its end time.
Expired_at_end(t, end) == t >= end
Expired(t, end) == t > end

\* What one call of NodeFoundExpectation does with the outcome of its lookup:
\* its value, and whether it reloads the parent.
NodeFoundExpectation_reload_always(node) == [value |-> node, reload |-> TRUE]
NodeFoundExpectation(node) == [value |-> node, reload |-> ~node]

\* Mutant: the lookup never hands back an element.
get_node_icon_element_none(node) == "None"
\* What get_node_icon_element hands back for the outcome of its lookup.
get_node_icon_element(node) == IF node THEN "element" ELSE "None"

\* The accessors of a node or of an element of it, and the script of each.
Accessors ==
    {"get_node_icon_element", "get_node_text_element", "get_node_expander_element",
     "get_node_element"}
AccessorScript(op) ==
    CASE op = "get_node_icon_element" -> "getNodeIcon"
      [] op = "get_node_text_element" -> "getNodeText"
      [] op = "get_node_expander_element" -> "getNodeExpander"
      [] OTHER -> "getNodeElementByData"
TreeOps ==
    Accessors \cup {"wait_for_tree_node", "reload_node", "open_node_context_menu",
                    "wait_until_tree_not_loading"}

InTree(where) == status = "running" /\ call.op \in TreeOps /\ at = where
Timeout == call.value.obj.n
\* recheck_time_if_false of the running wait until the tree is not loading.
RecheckTime == IF call.op = "wait_until_tree_not_loading" THEN call.value.obj.n ELSE Recheck

\* A lookup or reload request sent to the tree, and whether the tree is
\* loading when it arrives.
Request(script) == [script |-> script, loading |-> treeLoading, count |-> request.count + 1]

\* What one call of TreeNotLoadingExpectation does with its first observation
\* of the loading flag: whether it sleeps and observes again, and the value it
\* reports when it does not.
TreeNotLoadingExpectation_no_recheck(is_tree_loading, recheck_time_if_false) ==
    [recheck |-> FALSE, value |-> ~is_tree_loading]
TreeNotLoadingExpectation(is_tree_loading, recheck_time_if_false) ==
    [recheck |-> ~is_tree_loading /\ recheck_time_if_false # 0, value |-> ~is_tree_loading]

\* ActionChains.context_click: the action is queued.
context_click(ac) == ActionChains(Append(ac.queue, Event("context_click", "")), ac.sent)

\* open_node_context_menu with the outcome of its lookup of the node.
open_node_context_menu_click_anyway(ac, node) ==
    [ac |-> perform(context_click(move_to_element(ac))),
     error |-> IF node THEN "" ELSE "NodeNotFoundException"]
open_node_context_menu(ac, node) ==
    IF node
       THEN [ac |-> perform(context_click(move_to_element(ac))), error |-> ""]
       ELSE [ac |-> ac, error |-> "NodeNotFoundException"]

\* The client calls an accessor, reload_node or open_node_context_menu.
Call_tree(op) == Begin(op, "cqA", NoCall.field, Plain(None), <<>>)
\* The client calls wait_until_tree_not_loading with a recheck time.
Call_wait_until_tree_not_loading(recheck) ==
    Begin("wait_until_tree_not_loading", "cqA", NoCall.field, Plain(NumV(recheck)), <<>>)

\* The client calls wait_for_tree_node with a timeout.
Call_wait_for_tree_node(timeout) ==
    Begin("wait_for_tree_node", "cqA", NoCall.field, Plain(NumV(timeout)), <<>>)

\* A tree step leaves the stores, the fields and the input events alone.
TreeFrame ==
    UNCHANGED <<storeVars, uiVars, histVars, inputVars, call, prog, pc, ticks, selected, log,
                waitVars>>

\* Entering wait_until_tree_not_loading, to come back at back.
EnterTreeWait_skipped(back) ==
    /\ wait_end_time' = now + TreeTimeout
    /\ ret' = back
    /\ at' = back
EnterTreeWait(back) ==
    /\ wait_end_time' = now + TreeTimeout
    /\ ret' = back
    /\ at' = "is_tree_loading"

\* WebDriverWait(self._driver, timeout): the wait for the node starts.
WebDriverWait ==
    /\ InTree("") /\ call.op = "wait_for_tree_node"
    /\ end_time' = now + Timeout
    /\ at' = "until"
    /\ UNCHANGED <<status, error, treeEnvVars, now, ret, wait_end_time, reloads, polls,
                   tick, sawLoading, result, treeObsVars>>
    /\ TreeFrame

\* An accessor, reload_node, open_node_context_menu and
\* wait_until_tree_not_loading itself begin with the wait until the tree is not
\* loading.
tree_accessor_call ==
    /\ InTree("") /\ call.op # "wait_for_tree_node"
    /\ EnterTreeWait(CASE call.op \in Accessors -> "final"
                       [] call.op = "reload_node" -> "reload"
                       [] call.op = "open_node_context_menu" -> "menu"
                       [] OTHER -> "done")
    /\ UNCHANGED <<status, error, treeEnvVars, now, end_time, reloads, polls, tick,
                   sawLoading, result, treeObsVars>>
    /\ TreeFrame

\* A poll tick begins: NodeFoundExpectation calls get_node_icon_element, which
\* first waits until the tree is not loading.
NodeFoundExpectation_call ==
    /\ InTree("until")
    /\ polls' = polls + 1
    /\ tick' = NoTick
    /\ EnterTreeWait("lookup")
    /\ UNCHANGED <<status, error, treeEnvVars, now, end_time, reloads, sawLoading, result,
                   treeObsVars>>
    /\ TreeFrame

\* TreeNotLoadingExpectation: is_tree_loading, and a sleep before the recheck
\* when the tree is not loading and a recheck time is given.
TreeNotLoadingExpectation_call ==
    /\ InTree("is_tree_loading")
    /\ sawLoading' = (sawLoading \/ treeLoading)
    /\ LET e == TreeNotLoadingExpectation(treeLoading, RecheckTime)
       IN /\ at' = IF e.recheck THEN "recheck" ELSE IF e.value THEN ret ELSE "wait_sleep"
          /\ now' = IF e.recheck THEN sleep(now, RecheckTime) ELSE now
          /\ evaluation' = [observations |-> 1, first |-> now, second |-> now,
                            done |-> ~e.recheck, value |-> e.value]
    /\ UNCHANGED <<status, error, treeEnvVars, ret, end_time, wait_end_time, reloads,
                   polls, tick, result, request>>
    /\ TreeFrame

\* TreeNotLoadingExpectation: the second is_tree_loading; the wait returns when
\* the tree is still not loading.
TreeNotLoadingExpectation_recheck ==
    /\ InTree("recheck")
    /\ sawLoading' = (sawLoading \/ treeLoading)
    /\ at' = IF treeLoading THEN "wait_sleep" ELSE ret
    /\ evaluation' = [observations |-> evaluation.observations + 1,
                      first |-> evaluation.first, second |-> now,
                      done |-> TRUE, value |-> ~treeLoading]
    /\ UNCHANGED <<status, error, treeEnvVars, now, ret, end_time, wait_end_time, reloads,
                   polls, tick, result, request>>
    /\ TreeFrame

\* wait_until_tree_not_loading sleeps its poll frequency and raises when its
\* timeout has passed.
wait_until_tree_not_loading ==
    /\ InTree("wait_sleep")
    /\ now' = sleep(now, TreePoll)
    /\ loadAge' = Aged(TreePoll)
    /\ IF Expired(now', wait_end_time)
          THEN status' = "raised" /\ error' = "TimeoutException" /\ at' = at
          ELSE status' = status /\ error' = error /\ at' = "is_tree_loading"
    /\ UNCHANGED <<treeLoading, nodePresent, everPresent, envLoads, ret, end_time,
                   wait_end_time, reloads, polls, tick, sawLoading, result, treeObsVars>>
    /\ TreeFrame

\* wait_until_tree_not_loading called by the client returns.
wait_until_tree_not_loading_return ==
    /\ InTree("done")
    /\ status' = "returned"
    /\ UNCHANGED <<error, treeEnvVars, treeCallVars, treeObsVars>>
    /\ TreeFrame

\* NodeFoundExpectation: the lookup of the node. Found: until returns and
\* wait_for_tree_node calls get_node_icon_element again; not found: reload_node
\* is called, which first waits until the tree is not loading.
NodeFoundExpectation_lookup ==
    /\ InTree("lookup")
    /\ tick' = [lookups |-> tick.lookups + 1, found |-> nodePresent, reloads |-> tick.reloads]
    /\ request' = Request("getNodeIcon")
    /\ IF NodeFoundExpectation(nodePresent).reload
          THEN EnterTreeWait("reload")
          ELSE EnterTreeWait("final")
    /\ UNCHANGED <<status, error, treeEnvVars, now, end_time, reloads, polls, sawLoading,
                   result, evaluation>>
    /\ TreeFrame

\* reload_node: the reload of the node starts a load of the tree. Called by
\* the client it returns; in a poll tick the tick then reports its value to
\* until.
reload_node ==
    /\ InTree("reload")
    /\ reloads' = reloads + 1
    /\ tick' = [lookups |-> tick.lookups, found |-> tick.found, reloads |-> tick.reloads + 1]
    /\ request' = Request("reloadNode")
    /\ treeLoading' = TRUE
    /\ loadAge' = Aged(0)
    /\ IF call.op = "reload_node"
          THEN /\ status' = "returned"
               /\ at' = at /\ ret' = ret /\ wait_end_time' = wait_end_time
          ELSE /\ status' = status
               /\ IF NodeFoundExpectation(tick.found).value
                     THEN EnterTreeWait("final")
                     ELSE at' = "sleep" /\ ret' = ret /\ wait_end_time' = wait_end_time
    /\ UNCHANGED <<error, nodePresent, everPresent, envLoads, now, end_time, polls,
                   sawLoading, result, evaluation>>
    /\ TreeFrame

\* until sleeps the poll frequency after a falsy tick and raises when the
\* timeout has passed.
until_sleep ==
    /\ InTree("sleep")
    /\ now' = sleep(now, PollInterval)
    /\ loadAge' = Aged(PollInterval)
    /\ IF Expired(now', end_time)
          THEN status' = "raised" /\ error' = "TimeoutException" /\ at' = at
          ELSE status' = status /\ error' = error /\ at' = "until"
    /\ UNCHANGED <<treeLoading, nodePresent, everPresent, envLoads, ret, end_time,
                   wait_end_time, reloads, polls, tick, sawLoading, result, treeObsVars>>
    /\ TreeFrame

\* wait_for_tree_node returns what get_node_icon_element finds after the wait.
wait_for_tree_node_return ==
    /\ InTree("final") /\ call.op = "wait_for_tree_node"
    /\ result' = get_node_icon_element(nodePresent)
    /\ request' = Request("getNodeIcon")
    /\ status' = "returned"
    /\ UNCHANGED <<error, treeEnvVars, now, at, ret, end_time, wait_end_time, reloads,
                   polls, tick, sawLoading, evaluation>>
    /\ TreeFrame

\* get_node_icon_element, get_node_text_element, get_node_expander_element
\* and get_node_element called by the client return what their lookup finds.
get_node_element_return ==
    /\ InTree("final") /\ call.op \in Accessors
    /\ result' = get_node_icon_element(nodePresent)
    /\ request' = Request(AccessorScript(call.op))
    /\ status' = "returned"
    /\ UNCHANGED <<error, treeEnvVars, now, at, ret, end_time, wait_end_time, reloads,
                   polls, tick, sawLoading, evaluation>>
    /\ TreeFrame

\* open_node_context_menu after its lookup of the node: the mouse events on
\* the node, or NodeNotFoundException.
Do_open_node_context_menu ==
    /\ InTree("menu")
    /\ request' = Request("getNodeIcon")
    /\ result' = get_node_icon_element(nodePresent)
    /\ LET o == open_node_context_menu(ActionChains(<<>>, <<>>), nodePresent)
       IN /\ events' = events \o o.ac.sent
          /\ status' = IF o.error = "" THEN "returned" ELSE "raised"
          /\ error' = o.error
    /\ UNCHANGED <<storeVars, uiVars, histVars, is_remote, call, prog, pc, ticks, selected,
                   log, waitVars, treeEnvVars, now, at, ret, end_time, wait_end_time, reloads,
                   polls, tick, sawLoading, evaluation>>

\* The application starts a load of some part of the tree.
TreeStartsLoading ==
    /\ ~treeLoading
    /\ status = "running" => envLoads < MaxTreeLoads
    /\ treeLoading' = TRUE
    /\ loadAge' = 0
    /\ envLoads' = IF status = "running" THEN envLoads + 1 ELSE 0
    /\ UNCHANGED <<storeVars, uiVars, clientVars, histVars, inputVars, nodePresent,
                   everPresent, treeCallVars, treeObsVars, waitVars>>

\* A load of the tree completes; the tree then holds the node or not.
TreeLoadCompletes(present) ==
    /\ treeLoading
    /\ status = "running" => loadAge <= MaxLoadTime
    /\ treeLoading' = FALSE
    /\ loadAge' = 0
    /\ nodePresent' = present
    /\ everPresent' = IF status = "idle" THEN present ELSE everPresent \/ present
    /\ UNCHANGED <<storeVars, uiVars, clientVars, histVars, inputVars, envLoads,
                   treeCallVars, treeObsVars, waitVars>>

NextTree ==
    \/ \E timeout \in Timeouts : Call_wait_for_tree_node(timeout)
    \/ \E op \in Accessors \cup {"reload_node", "open_node_context_menu"} : Call_tree(op)
    \/ \E recheck \in {0, Recheck} : Call_wait_until_tree_not_loading(recheck)
    \/ WebDriverWait
    \/ tree_accessor_call
    \/ NodeFoundExpectation_call
    \/ TreeNotLoadingExpectation_call
    \/ TreeNotLoadingExpectation_recheck
    \/ wait_until_tree_not_loading
    \/ wait_until_tree_not_loading_return
    \/ NodeFoundExpectation_lookup
    \/ reload_node
    \/ until_sleep
    \/ wait_for_tree_node_return
    \/ get_node_element_return
    \/ Do_open_node_context_menu
    \/ Return
    \/ TreeStartsLoading
    \/ \E present \in BOOLEAN : TreeLoadCompletes(present)

SpecTree == Init /\ [][NextTree]_vars

(* ------------------ waiting for a component or for focus ---------------- *)

\* Live components an address can match.
MaxMatches == 2

\* The waits built on WebDriverWait(driver, timeout).until(expectation).
WaitOps == {"find_field_input_element", "wait_until_field_has_focus"}
InWait(where) == status = "running" /\ call.op \in WaitOps /\ at = where

\* What the expectation of the running wait finds: a single match of the
\* address that is visible and enabled, or the focus on the field.
Expectation ==
    IF call.op = "find_field_input_element" THEN matches = 1 ELSE has_focus

\* The client calls find_field_input_element, whose wait for the field has
\* the given timeout, or wait_until_field_has_focus.
Call_find_field_input_element(timeout) ==
    Begin("find_field_input_element", "cqA", NoCall.field, Plain(NumV(timeout)), <<>>)
Call_wait_until_field_has_focus(timeout) ==
    Begin("wait_until_field_has_focus", "cqA", NoCall.field, Plain(NumV(timeout)), <<>>)

\* A step of a wait leaves the stores, the fields, the tree and the input
\* events alone.
WaitFrame ==
    UNCHANGED <<storeVars, uiVars, histVars, inputVars, call, prog, pc, ticks, selected, log,
                treeEnvVars, treeObsVars, ret, wait_end_time, reloads, tick, sawLoading,
                waitVars>>

\* WebDriverWait(driver, timeout).until: the end time is fixed.
until_begin ==
    /\ InWait("")
    /\ end_time' = now + Timeout
    /\ at' = "until"
    /\ UNCHANGED <<status, error, now, polls, result>>
    /\ WaitFrame

\* until calls the expectation, a round-trip to the live UI that takes some
\* time, and returns when its value is truthy.
until_call ==
    /\ InWait("until")
    /\ \E cost \in 0..MaxCost : now' = now + cost
    /\ polls' = polls + 1
    /\ at' = IF Expectation THEN "found" ELSE "sleep"
    /\ UNCHANGED <<status, error, end_time, result>>
    /\ WaitFrame

\* until sleeps the poll frequency after a falsy value and raises when the
\* clock has passed the end time.
until_poll ==
    /\ InWait("sleep")
    /\ now' = sleep(now, PollInterval)
    /\ IF Expired(now', end_time)
          THEN status' = "raised" /\ error' = "TimeoutException" /\ at' = at
          ELSE status' = status /\ error' = error /\ at' = "until"
    /\ UNCHANGED <<end_time, polls, result>>
    /\ WaitFrame

\* The wait has succeeded: find_field_input_element fetches the input element
\* of the field, wait_until_field_has_focus returns.
until_return ==
    /\ InWait("found")
    /\ result' = IF call.op = "find_field_input_element"
                    THEN (IF matches > 0 THEN "element" ELSE "None")
                    ELSE ""
    /\ status' = "returned"
    /\ UNCHANGED <<error, now, at, end_time, polls>>
    /\ WaitFrame

\* The application adds or removes components that match the address.
ComponentsChange(n) ==
    /\ n # matches
    /\ matches' = n
    /\ everMatched' = IF status = "idle" THEN n > 0 ELSE everMatched \/ n > 0
    /\ UNCHANGED <<storeVars, uiVars, clientVars, histVars, inputVars, treeVars,
                   has_focus, focusRequests, lookup, form_values, focus_seen, exc, scripts>>

\* The focus moves to the field or away from it.
FocusChanges ==
    /\ has_focus' = ~has_focus
    /\ UNCHANGED <<storeVars, uiVars, clientVars, histVars, inputVars, treeVars,
                   matches, everMatched, focusRequests, lookup, form_values, focus_seen, exc, scripts>>

NextWait ==
    \/ \E timeout \in Timeouts : Call_find_field_input_element(timeout)
    \/ \E timeout \in Timeouts : Call_wait_until_field_has_focus(timeout)
    \/ until_begin
    \/ until_call
    \/ until_poll
    \/ until_return
    \/ Return
    \/ \E n \in 0..MaxMatches : ComponentsChange(n)
    \/ FocusChanges

SpecWait == Init /\ [][NextWait]_vars

(* ------------------------------ forms ---------------------------------- *)

\* A Python list of values.
\* The values a client puts into the list of set_form_values, and the
\* lists themselves.
ListValues == {StrV(Sto), StrV(<<>>), NumV(42), NumV(0), None}
RECURSIVE ListsOf(_)
ListsOf(n) ==
    IF n = 0 THEN {<<>>}
    ELSE LET shorter == ListsOf(n - 1)
         IN  shorter \cup {Append(l, v) : l \in {x \in shorter : Len(x) = n - 1},
                                          v \in ListValues}

\* A field is addressed by its zero-based index or by its name.
IndexOrNames == {NumV(0), Word("name")}

\* f"'{index_or_name}'" when the value is a string
Quote(index_or_name) ==
    IF index_or_name.kind = "str"
    THEN StrV(<<"'">> \o index_or_name.s \o <<"'">>)
    ELSE index_or_name

\* The text put in the place of {index_or_name} of a script template is an
\* expression of the script when it is a number or one quoted string.
IsScriptArgument(v) ==
    \/ v.kind = "num"
    \/ /\ v.kind = "str" /\ Len(v.s) >= 2
       /\ v.s[1] = "'" /\ v.s[Len(v.s)] = "'"
       /\ \A i \in 2..(Len(v.s) - 1) : v.s[i] # "'"

\* FieldHelper.does_field_have_focus
does_field_have_focus(via, form_cq, index_or_name) ==
    << Step("doesFieldHaveFocus", "does_field_have_focus", via, form_cq,
            Quote(index_or_name), FALSE) >>

\* Mutant: the focus request is sent again whatever the check found.
focus_field_retry_always(via, form_cq, index_or_name, check_has_focus_after) ==
    LET quoted == Quote(index_or_name)
        script == Step("focusField", "focus_field", via, form_cq, quoted, FALSE)
    IN  << script >>
        \o (IF check_has_focus_after
            THEN does_field_have_focus("focus_field", form_cq, quoted) \o << script >>
            ELSE <<>>)

\* FieldHelper.focus_field: the focus script, then, when the focus is to be
\* checked, the check and the script once more if not has_focus (opt).
focus_field(via, form_cq, index_or_name, check_has_focus_after) ==
    LET quoted == Quote(index_or_name)
        script == Step("focusField", "focus_field", via, form_cq, quoted, FALSE)
    IN  << script >>
        \o (IF check_has_focus_after
            THEN does_field_have_focus("focus_field", form_cq, quoted)
                 \o << [script EXCEPT !.opt = TRUE] >>
            ELSE <<>>)

\* FieldHelper.wait_until_field_has_focus
wait_until_field_has_focus_on(via, form_cq, index_or_name) ==
    << Step("wait_until_field_has_focus", "wait_until_field_has_focus", via, form_cq,
            Quote(index_or_name), FALSE) >>

\* for field_value in field_values: type it if it is truthy, then type a
\* tab with a pause time of 0.1 s.
RECURSIVE type_field_values(_, _)
type_field_values(form_cq, field_values) ==
    IF field_values = <<>> THEN <<>>
    ELSE LET field_value == Head(field_values)
         IN  (IF Truthy(field_value)
              THEN << Step("type", "type", "set_form_values", form_cq,
                           StrV(str(field_value)), FALSE) >>
              ELSE <<>>)
             \o << [Step("type_tab", "type_tab", "set_form_values", form_cq, None, FALSE)
                       EXCEPT !.delay = 1] >>
             \o type_field_values(form_cq, Tail(field_values))

\* Mutant: the values are typed without the wait for the focus.
set_form_values_list_no_wait(form_cq, field_values, starting_field_index_or_name) ==
    (IF starting_field_index_or_name # None
     THEN does_field_have_focus("set_form_values", form_cq, starting_field_index_or_name)
          \o [i \in 1..1 |->
                [focus_field("set_form_values", form_cq, starting_field_index_or_name,
                             FALSE)[i] EXCEPT !.opt = TRUE]]
     ELSE <<>>)
    \o type_field_values(form_cq, field_values)

\* FormHelper.set_form_values with a list of values
set_form_values_list(form_cq, field_values, starting_field_index_or_name) ==
    (IF starting_field_index_or_name # None
     THEN does_field_have_focus("set_form_values", form_cq, starting_field_index_or_name)
          \o [i \in 1..1 |->
                [focus_field("set_form_values", form_cq, starting_field_index_or_name,
                             FALSE)[i] EXCEPT !.opt = TRUE]]
          \o wait_until_field_has_focus_on("set_form_values", form_cq,
                                           starting_field_index_or_name)
     ELSE <<>>)
    \o type_field_values(form_cq, field_values)

\* A Python dict of field values, as its items in the order of its keys.
ItemsV(items) == [kind |-> "items", s |-> items, n |-> 0, payload |-> {}]

\* The names and values a client puts into the dict of set_form_values (one
\* of the names is of no field of the form), and the dicts themselves.
DictNames == FormFields \cup {"colour"}
DictValues == {StrV(Sto), NumV(42)}
RECURSIVE DictsOf(_)
DictsOf(n) ==
    IF n = 0 THEN {<<>>}
    ELSE LET shorter == DictsOf(n - 1)
         IN  shorter \cup
             UNION {{Append(d, <<name, v>>) :
                        d \in {x \in shorter : /\ Len(x) = n - 1
                                                /\ \A i \in 1..Len(x) : x[i][1] # name},
                        v \in DictValues} : name \in DictNames}

\* One call of FieldHelper.set_field_value for a field of the form.
set_field_value_of(form_cq, field_name, value) ==
    [call |-> "set_field_value", by |-> "set_field_value", via |-> "set_form_values",
     cq |-> form_cq, arg |-> value, opt |-> FALSE, delay |-> 0, tab_off |-> FALSE,
     clear_first |-> TRUE, name |-> field_name]

\* Mutant: the fields are set from the last key of the dict to the first.
RECURSIVE set_form_values_dict_backwards(_, _)
set_form_values_dict_backwards(form_cq, field_values) ==
    IF field_values = <<>> THEN <<>>
    ELSE set_form_values_dict_backwards(form_cq, Tail(field_values))
         \o << set_field_value_of(form_cq, Head(field_values)[1], Head(field_values)[2]) >>

\* FormHelper.set_form_values with a dict: set_field_value for every key,
\* in the order of the keys.
RECURSIVE set_form_values_dict(_, _)
set_form_values_dict(form_cq, field_values) ==
    IF field_values = <<>> THEN <<>>
    ELSE << set_field_value_of(form_cq, Head(field_values)[1], Head(field_values)[2]) >>
         \o set_form_values_dict(form_cq, Tail(field_values))

Call_set_form_values_dict(field_values) ==
    Begin("set_form_values", "cqA", NoCall.field, Plain(ItemsV(field_values)),
          set_form_values_dict("cqA", field_values))

\* The call keeps its list (obj) and its starting field (value).
Call_set_form_values_list(field_values, starting_field_index_or_name) ==
    Begin("set_form_values", "cqA", NoCall.field,
          [Plain(ListV(field_values)) EXCEPT !.value = starting_field_index_or_name],
          set_form_values_list("cqA", field_values, starting_field_index_or_name))

Call_focus_field(index_or_name, check_has_focus_after) ==
    Begin("focus_field", "cqA", NoCall.field, Plain(index_or_name),
          focus_field("client", "cqA", index_or_name, check_has_focus_after))

\* What a step of a form operation leaves alone besides the focus.
FormFrame ==
    UNCHANGED <<storeVars, applied, selected, histVars, inputVars, treeVars,
                matches, everMatched, lookup, form_values, exc, scripts>>

\* execute_script(focusField): the request for the focus is sent, unless the
\* step stands under "if not has_focus" and the focus was seen; the field
\* may get the focus from it. A script that does not parse raises.
Do_focusField ==
    /\ Running /\ Cur.call = "focusField"
    /\ IF Cur.opt /\ focus_seen
          THEN Advance /\ UNCHANGED <<focusRequests, has_focus>>
          ELSE IF IsScriptArgument(Cur.arg)
                  THEN /\ focusRequests' = focusRequests + 1
                       /\ \E focused \in BOOLEAN : has_focus' = (has_focus \/ focused)
                       /\ Advance
                  ELSE Fail("JavascriptException") /\ UNCHANGED <<focusRequests, has_focus>>
    /\ UNCHANGED focus_seen
    /\ FormFrame

\* execute_script(doesFieldHaveFocus)
Do_doesFieldHaveFocus ==
    /\ Running /\ Cur.call = "doesFieldHaveFocus"
    /\ IF IsScriptArgument(Cur.arg)
          THEN focus_seen' = has_focus /\ Advance
          ELSE Fail("JavascriptException") /\ UNCHANGED focus_seen
    /\ UNCHANGED <<focusRequests, has_focus>>
    /\ FormFrame

\* WebDriverWait(driver, timeout).until(FieldHasFocusExpectation)
Do_wait_until_field_has_focus ==
    /\ Running /\ Cur.call = "wait_until_field_has_focus"
    /\ Poll(has_focus)
    /\ UNCHANGED <<focusRequests, has_focus, focus_seen>>
    /\ FormFrame

\* FieldHelper.set_field_value called for a field of the form: the field is
\* set, or the call raises: FieldNotFoundException when the form has no
\* field of the name, or the timeout of one of its waits, which may come
\* after the field has got its value.
Do_set_field_value ==
    /\ Running /\ Cur.call = "set_field_value"
    /\ IF Cur.name \in FormFields
          THEN \/ /\ form_values' = [form_values EXCEPT ![Cur.name] = Cur.arg]
                  /\ Advance
               \/ /\ form_values' \in {form_values, [form_values EXCEPT ![Cur.name] = Cur.arg]}
                  /\ Fail("TimeoutException")
          ELSE Fail("FieldNotFoundException") /\ UNCHANGED form_values
    /\ UNCHANGED <<storeVars, applied, selected, histVars, inputVars, treeVars,
                   matches, everMatched, has_focus, focusRequests, lookup, focus_seen, exc, scripts>>

\* InputHelper.type(text)
Do_type ==
    /\ Running /\ Cur.call = "type"
    /\ events' = events \o InputHelper_type(ActionChains(<<>>, <<>>), Cur.arg.s,
                                            Cur.opt, is_remote).sent
    /\ Advance
    /\ UNCHANGED <<storeVars, applied, selected, histVars, is_remote, treeVars, waitVars>>

(* ------------------------ the older FormHelper ------------------------- *)

\* The class variables FormHelper defines: the script templates.
ClassVariables ==
    { "_FIND_FIELD_INPUT_ELEMENT_TEMPLATE", "_GET_FIELD_XTYPE_TEMPLATE",
      "_SET_CHECKBOX_VALUE_TEMPLATE", "_SET_FIELD_NUMERIC_VALUE_TEMPLATE" }

\* script = self.<attribute>.format(...); self._driver.execute_script(script):
\* the attribute is looked up on the helper before anything is sent, and a
\* name the class does not define raises AttributeError.
execute_template(attribute, c, by, cq, arg) ==
    IF attribute \in ClassVariables
    THEN << Step(c, by, "FormHelper.set_form_values", cq, arg, FALSE) >>
    ELSE << Raise("AttributeError", by, cq) >>

\* FormHelper.find_field_input_element(form_cq, name)
FormHelper_find_field_input_element(cq) ==
    execute_template("_FIND_FIELD_INPUT_ELEMENT_TEMPLATE", "findFieldInputElement",
                     "FormHelper.find_field_input_element", cq, None)

\* FormHelper.set_checkbox_value(form_cq, field_name, checked)
set_checkbox_value(cq, checked) ==
    execute_template("_SET_CHECKBOX_VALUE_TEMPLATE", "setCheckboxValue",
                     "FormHelper.set_checkbox_value", cq, checked)

\* FormHelper.set_field_numeric_value(form_cq, field_name, value)
set_field_numeric_value(cq, value) ==
    execute_template("_SET_FIELD_NUMERIC_VALUE", "setFieldNumericValue",
                     "FormHelper.set_field_numeric_value", cq, value)

\* The loop of FormHelper.type_into_element: each character is queued and
\* performed on its own.
RECURSIVE FormHelper_type(_, _)
FormHelper_type(ac, text) ==
    IF text = <<>> THEN ac
    ELSE FormHelper_type(perform(send_keys(ac, <<Head(text)>>)), Tail(text))

\* FormHelper.type_into_element(element, text, delay, tab_off); the delay
\* is a sleep of the client and sends nothing.
FormHelper_type_into_element(ac, value, delay, tab_off) ==
    LET text == IF value.kind = "none" THEN <<"N", "o", "n", "e">> ELSE str(value)
        focused == perform(click(move_to_element(ac)))
        typed == FormHelper_type(focused, text)
    IN  IF tab_off THEN perform(send_keys(typed, <<"TAB">>)) ELSE typed

\* The body of the loop of FormHelper.set_form_values(form_cq, field_values),
\* for the one field of a dict of one entry; a value specification has no
\* delay and no tab_off member, so both take their defaults.
FormHelper_set_form_values(cq, f, value_or_config) ==
    LET field_xtype == get_field_xtype(f)
        field_value == try_get_object_member(value_or_config, "value", value_or_config.obj)
        is_combo == \/ endswith(field_xtype, <<"combo">>)
                    \/ endswith(field_xtype, <<"combobox">>)
    IN  IF field_xtype # <<>>
        THEN IF \/ endswith(field_xtype, <<"textfield">>)
                \/ endswith(field_xtype, <<"number">>)
                \/ endswith(field_xtype, <<"datefield">>)
                \/ (is_combo /\ field_value.kind = "str")
             THEN FormHelper_find_field_input_element(cq)
                  \o << Step("FormHelper.type_into_element", "FormHelper.type_into_element",
                             "FormHelper.set_form_values", cq, field_value, FALSE) >>
             ELSE IF endswith(field_xtype, <<"checkbox">>)
             THEN set_checkbox_value(cq, field_value)
             ELSE IF is_combo
             THEN set_field_numeric_value(cq, field_value)
             ELSE << Raise("UnsupportedFieldXTypeException", "FormHelper.set_form_values", cq) >>
        ELSE << Raise("FieldNotFoundException", "FormHelper.set_form_values", cq) >>

Call_FormHelper_set_form_values(f, value) ==
    Begin("FormHelper.set_form_values", "cqA", f, value,
          FormHelper_set_form_values("cqA", f, value))

\* FormHelper.type_into_element, at the browser
Do_FormHelper_type_into_element ==
    /\ Running /\ Cur.call = "FormHelper.type_into_element"
    /\ LET ac == FormHelper_type_into_element(ActionChains(<<>>, <<>>), Cur.arg,
                                              Cur.delay, Cur.tab_off)
       IN  /\ events' = events \o ac.sent
           /\ applied' = StrV(FieldText(IF applied.kind = "str" THEN applied.s ELSE <<>>,
                                        ac.sent))
    /\ Advance
    /\ UNCHANGED <<storeVars, selected, histVars, is_remote, treeVars, waitVars>>

\* PySeExt.FormHelper.setCheckboxValue and setFieldNumericValue, at the
\* browser: the field takes the value.
Do_FormHelper_setValue ==
    /\ Running /\ Cur.call \in {"setCheckboxValue", "setFieldNumericValue"}
    /\ applied' = Cur.arg
    /\ Advance
    /\ UNCHANGED <<storeVars, selected, histVars>>
    /\ UNCHANGED <<inputVars, treeVars, waitVars>>

NextForm ==
    \/ \E field_values \in ListsOf(MaxLen), starting \in IndexOrNames \cup {None} :
           Call_set_form_values_list(field_values, starting)
    \/ \E field_values \in DictsOf(MaxLen) : Call_set_form_values_dict(field_values)
    \/ \E index_or_name \in IndexOrNames, check \in BOOLEAN :
           Call_focus_field(index_or_name, check)
    \/ \E f \in Fields, value \in Values : Call_FormHelper_set_form_values(f, value)
    \/ Do_doesFieldHaveFocus
    \/ Do_focusField
    \/ Do_wait_until_field_has_focus
    \/ Do_type
    \/ Do_type_tab
    \/ Do_set_field_value
    \/ Do_findFieldInputElement
    \/ Do_FormHelper_type_into_element
    \/ Do_FormHelper_setValue
    \/ Do_raise
    \/ Finish
    \/ Return
    \/ \E remote \in BOOLEAN : UseDriver(remote)
    \/ FocusChanges

SpecForm == Init /\ [][NextForm]_vars

(* ------------------------- the not-found errors ------------------------ *)

\* The addresses (component queries) and the keys of the lookups.
Addresses == {Word(cq) : cq \in CQs} \cup {Word("grid[title=Animals]")}
FieldNames == {Word("name"), Word("species")}
Payloads == {DictV(StoatPayload), DictV(CatPayload)}
NodeKeys == {Word("Stoat"), Word("Cat")} \cup Payloads
Columns == {Word("Name"), Word("id")}

\* A message is a sequence of pieces: literal text, a replacement field
\* {name} of a format string, or a value put in the place of such a field.
Lit(text) == [kind |-> "lit", text |-> text, value |-> None]
Placeholder(name) == [kind |-> "field", text |-> name, value |-> None]
Formatted(v) == [kind |-> "value", text |-> "", value |-> v]

\* Mutant: the format string is returned as it is.
format_nothing(message, kwargs) == [raises |-> "", value |-> message]

\* str.format(**kwargs): every replacement field is replaced with the
\* argument of its name; KeyError when there is none of that name.
format(message, kwargs) ==
    IF \E i \in 1..Len(message) :
           message[i].kind = "field" /\ message[i].text \notin DOMAIN kwargs
       THEN [raises |-> "KeyError", value |-> <<>>]
       ELSE [raises |-> "",
             value |-> [i \in 1..Len(message) |->
                           IF message[i].kind = "field"
                              THEN Formatted(kwargs[message[i].text])
                              ELSE message[i]]]

\* The default messages of the exception classes.
FieldNotFoundMessage ==
    << Lit("Failed to find field named '"), Placeholder("name"),
       Lit("' on form with CQ '"), Placeholder("form_cq"), Lit("'.") >>
RecordNotFoundMessage ==
    << Lit("Failed to find record with data "), Placeholder("data"),
       Lit(" in combobox named '"), Placeholder("name"),
       Lit("' on form with CQ '"), Placeholder("form_cq"), Lit("'.") >>
NodeNotFoundMessage ==
    << Lit("Failed to find node with data (or text) '"), Placeholder("node_text_or_data"),
       Lit("' on tree with CQ '"), Placeholder("tree_cq"), Lit("'.") >>
ColumnNotFoundMessage ==
    << Lit("Failed to find column with text (or dataIndex) '"),
       Placeholder("column_text_or_dataIndex"),
       Lit("' on grid with CQ '"), Placeholder("grid_cq"), Lit("'.") >>

\* __init__ of the exception classes: the message is kept as it was passed,
\* and is what Exception.__init__ gets; the arguments are kept beside it.
FieldNotFoundException(form_cq, name, message) ==
    [class |-> "FieldNotFoundException", message |-> message, args |-> <<message>>,
     attrs |-> [_form_cq |-> form_cq, _name |-> name]]
RecordNotFoundException(form_cq, name, data, message) ==
    [class |-> "RecordNotFoundException", message |-> message, args |-> <<message>>,
     attrs |-> [_form_cq |-> form_cq, _name |-> name, _data |-> data]]
NodeNotFoundException(tree_cq, node_text_or_data, message) ==
    [class |-> "NodeNotFoundException", message |-> message, args |-> <<message>>,
     attrs |-> [_tree_cq |-> tree_cq, _node_text_or_data |-> node_text_or_data]]
ColumnNotFoundException(grid_cq, column_text_or_dataIndex, message) ==
    [class |-> "ColumnNotFoundException", message |-> message, args |-> <<message>>,
     attrs |-> [_grid_cq |-> grid_cq,
                _column_text_or_dataIndex |-> column_text_or_dataIndex]]

NotFoundExceptions ==
    {"FieldNotFoundException", "RecordNotFoundException", "NodeNotFoundException",
     "ColumnNotFoundException"}

\* __str__ of the exception classes: the message, formatted with the
\* arguments the exception was made with.
__str__(e) ==
    CASE e.class = "FieldNotFoundException" ->
            format(e.message, [name |-> e.attrs._name, form_cq |-> e.attrs._form_cq])
      [] e.class = "RecordNotFoundException" ->
            format(e.message, [data |-> e.attrs._data, name |-> e.attrs._name,
                               form_cq |-> e.attrs._form_cq])
      [] e.class = "NodeNotFoundException" ->
            format(e.message, [node_text_or_data |-> e.attrs._node_text_or_data,
                               tree_cq |-> e.attrs._tree_cq])
      [] e.class = "ColumnNotFoundException" ->
            format(e.message, [column_text_or_dataIndex |-> e.attrs._column_text_or_dataIndex,
                               grid_cq |-> e.attrs._grid_cq])

\* The client begins an operation that looks something up by a key at an
\* address: a field or a record of a combobox on a form, a node of a tree, a
\* column of a grid.
BeginLookup(op, kind, address, key, data) ==
    /\ status = "idle"
    /\ call' = [NoCall EXCEPT !.op = op]
    /\ status' = "running"
    /\ lookup' = [kind |-> kind, address |-> address, key |-> key, data |-> data]
    /\ UNCHANGED <<storeVars, uiVars, histVars, inputVars, treeVars, prog, pc, ticks, error,
                   selected, log, matches, everMatched, has_focus, focusRequests,
                   form_values, focus_seen, exc, scripts>>

Call_set_field_value_of_field(form_cq, name) ==
    BeginLookup("set_field_value", "field", form_cq, name, None)
Call_set_field_value_of_record(form_cq, name, field_value) ==
    BeginLookup("set_field_value", "record", form_cq, name, field_value)
Call_open_node_context_menu(tree_cq, node_text_or_data) ==
    BeginLookup("open_node_context_menu", "node", tree_cq, node_text_or_data, None)
Call_click_column_header(grid_cq, column_text_or_dataIndex) ==
    BeginLookup("click_column_header", "column", grid_cq, column_text_or_dataIndex, None)

InLookup(kind) == status = "running" /\ lookup.kind = kind

\* What a step of a lookup leaves alone.
LookupFrame ==
    UNCHANGED <<storeVars, uiVars, histVars, inputVars, treeVars, call, prog, pc, ticks,
                selected, log, matches, everMatched, has_focus, focusRequests, lookup,
                form_values, focus_seen, scripts>>

\* raise <the exception object>
raise(e) ==
    /\ status' = "raised"
    /\ error' = e.class
    /\ exc' = e
    /\ LookupFrame

\* The live UI has what is looked up: the operation goes on to its end.
lookup_found ==
    /\ status = "running" /\ lookup.kind # ""
    /\ status' = "returned"
    /\ UNCHANGED <<error, exc>>
    /\ LookupFrame

\* set_field_value: the field has no xtype.
raise_FieldNotFoundException ==
    /\ InLookup("field")
    /\ raise(FieldNotFoundException(lookup.address, lookup.key, FieldNotFoundMessage))

\* set_field_value: not was_value_selected.
raise_RecordNotFoundException ==
    /\ InLookup("record")
    /\ raise(RecordNotFoundException(lookup.address, lookup.key, lookup.data,
                                     RecordNotFoundMessage))

\* open_node_context_menu: the lookup of the node gave nothing.
raise_NodeNotFoundException ==
    /\ InLookup("node")
    /\ raise(NodeNotFoundException(lookup.address, lookup.key, NodeNotFoundMessage))

\* click_column_header: the script gave no column header.
raise_ColumnNotFoundException ==
    /\ InLookup("column")
    /\ raise(ColumnNotFoundException(lookup.address, lookup.key, ColumnNotFoundMessage))

NextErrors ==
    \/ \E form_cq \in Addresses, name \in FieldNames :
           Call_set_field_value_of_field(form_cq, name)
    \/ \E form_cq \in Addresses, name \in FieldNames, field_value \in Payloads :
           Call_set_field_value_of_record(form_cq, name, field_value)
    \/ \E tree_cq \in Addresses, node_text_or_data \in NodeKeys :
           Call_open_node_context_menu(tree_cq, node_text_or_data)
    \/ \E grid_cq \in Addresses, column_text_or_dataIndex \in Columns :
           Call_click_column_header(grid_cq, column_text_or_dataIndex)
    \/ lookup_found
    \/ raise_FieldNotFoundException
    \/ raise_RecordNotFoundException
    \/ raise_NodeNotFoundException
    \/ raise_ColumnNotFoundException
    \/ Return

SpecErrors == Init /\ [][NextErrors]_vars

(* ---------------------- loading a helper's script --------------------- *)

\* HasReferencedJavaScript._SCRIPT_LOAD_TIMEOUT, in tenths of a second.
ScriptLoadTimeout == 20

\* Mutant: the script is loaded whatever the test returned.
HasReferencedJavaScript_load_always(loaded) == [load |-> TRUE]
\* What HasReferencedJavaScript.__init__ does with the value of its test
\* that the script is loaded.
HasReferencedJavaScript(loaded) == [load |-> ~loaded]

\* JavaScriptLoadedExpectation.__call__: the value of the test script.
JavaScriptLoadedExpectation(defined) == defined

\* The client constructs a helper of the class.
Call_HasReferencedJavaScript(class) ==
    Begin("__init__", "cqA", NoCall.field, Plain(Word(class)), <<>>)

InConstructor(where) == status = "running" /\ call.op = "__init__" /\ at = where
\* type(self).__name__
class_name == call.value.obj.s[1]

ScriptFrame ==
    UNCHANGED <<storeVars, uiVars, histVars, inputVars, call, prog, pc, ticks, selected, log,
                treeEnvVars, treeObsVars, ret, wait_end_time, reloads, tick, sawLoading,
                result, matches, everMatched, has_focus, focusRequests, lookup,
                form_values, focus_seen, exc>>

\* if not driver.execute_script(test): the constructor returns when the
\* script is defined and goes on to load it otherwise.
HasReferencedJavaScript_test ==
    /\ InConstructor("")
    /\ LET loaded == scripts.defined[class_name]
       IN  /\ scripts' = [scripts EXCEPT !.tests = 1, !.seen = loaded]
           /\ IF HasReferencedJavaScript(loaded).load
                 THEN status' = status /\ at' = "load"
                 ELSE status' = "returned" /\ at' = at
    /\ UNCHANGED <<error, now, end_time, polls>>
    /\ ScriptFrame

\* driver.execute_script(open(js_path).read()): the script is sent to the
\* page; it defines the class at once or later.
HasReferencedJavaScript_load ==
    /\ InConstructor("load")
    /\ \E at_once \in BOOLEAN :
          scripts' = [scripts EXCEPT !.loads = @ + 1,
                                   !.injected[class_name] = TRUE,
                                   !.defined[class_name] = @ \/ at_once]
    /\ at' = "wait"
    /\ UNCHANGED <<status, error, now, end_time, polls>>
    /\ ScriptFrame

\* WebDriverWait(driver, self._SCRIPT_LOAD_TIMEOUT).until: the end time is fixed.
HasReferencedJavaScript_wait ==
    /\ InConstructor("wait")
    /\ end_time' = now + ScriptLoadTimeout
    /\ at' = "until"
    /\ UNCHANGED <<status, error, now, polls, scripts>>
    /\ ScriptFrame

\* until calls JavaScriptLoadedExpectation, a round-trip to the page.
JavaScriptLoadedExpectation_call ==
    /\ InConstructor("until")
    /\ \E cost \in 0..MaxCost : now' = now + cost
    /\ polls' = polls + 1
    /\ LET value == JavaScriptLoadedExpectation(scripts.defined[class_name])
       IN  /\ scripts' = [scripts EXCEPT !.tests = @ + 1, !.seen = value]
           /\ at' = IF value THEN "found" ELSE "sleep"
    /\ UNCHANGED <<status, error, end_time>>
    /\ ScriptFrame

\* until sleeps the poll frequency after a falsy value and raises when the
\* clock has passed the end time.
HasReferencedJavaScript_sleep ==
    /\ InConstructor("sleep")
    /\ now' = sleep(now, PollInterval)
    /\ IF Expired(now', end_time)
          THEN status' = "raised" /\ error' = "TimeoutException" /\ at' = at
          ELSE status' = status /\ error' = error /\ at' = "until"
    /\ UNCHANGED <<end_time, polls, scripts>>
    /\ ScriptFrame

\* until has returned and the constructor with it.
HasReferencedJavaScript_return ==
    /\ InConstructor("found")
    /\ status' = "returned"
    /\ UNCHANGED <<error, now, at, end_time, polls, scripts>>
    /\ ScriptFrame

\* A script that was sent to the page defines its class.
ScriptDefines(class) ==
    /\ scripts.injected[class] /\ ~scripts.defined[class]
    /\ scripts' = [scripts EXCEPT !.defined[class] = TRUE]
    /\ UNCHANGED <<storeVars, uiVars, clientVars, histVars, inputVars, treeVars,
                   matches, everMatched, has_focus, focusRequests, lookup, form_values,
                   focus_seen, exc>>

\* The client, between two calls, opens a page: no helper script is defined.
PageLoads ==
    /\ status = "idle"
    /\ scripts # NoScript
    /\ scripts' = NoScript
    /\ UNCHANGED <<storeVars, uiVars, clientVars, histVars, inputVars, treeVars,
                   matches, everMatched, has_focus, focusRequests, lookup, form_values,
                   focus_seen, exc>>

NextScript ==
    \/ \E class \in ClassNames : Call_HasReferencedJavaScript(class)
    \/ HasReferencedJavaScript_test
    \/ HasReferencedJavaScript_load
    \/ HasReferencedJavaScript_wait
    \/ JavaScriptLoadedExpectation_call
    \/ HasReferencedJavaScript_sleep
    \/ HasReferencedJavaScript_return
    \/ Return
    \/ \E class \in ClassNames : ScriptDefines(class)
    \/ PageLoads

SpecScript == Init /\ [][NextScript]_vars

(* --------------------------- the waits, fairly -------------------------- *)

\* The waits of the core that the client calls.
CoreWaits ==
    {"wait_for_store_loaded", "wait_until_tree_not_loading", "wait_for_tree_node",
     "wait_until_field_has_focus"}

\* A step of the client inside a running wait.
WaitStep ==
    \/ Do_waitForStoreLoaded
    \/ (call.op = "wait_for_store_loaded" /\ Finish)
    \/ WebDriverWait
    \/ tree_accessor_call
    \/ NodeFoundExpectation_call
    \/ TreeNotLoadingExpectation_call
    \/ TreeNotLoadingExpectation_recheck
    \/ wait_until_tree_not_loading
    \/ wait_until_tree_not_loading_return
    \/ NodeFoundExpectation_lookup
    \/ reload_node
    \/ until_sleep
    \/ wait_for_tree_node_return
    \/ until_begin
    \/ until_call
    \/ until_poll
    \/ until_return

NextWaits ==
    \/ \E cq \in CQs : Call_wait_for_store_loaded(cq)
    \/ Call_wait_for_tree_node(MaxTimeout \div 2)
    \/ \E recheck \in {0, Recheck} : Call_wait_until_tree_not_loading(recheck)
    \/ Call_wait_until_field_has_focus(MaxTimeout \div 2)
    \/ WaitStep
    \/ Return
    \/ \E cq \in CQs, own \in BOOLEAN : FetchCompletes(cq, own)
    \/ TreeStartsLoading
    \/ \E present \in BOOLEAN : TreeLoadCompletes(present)
    \/ FocusChanges

\* The client is a single thread that keeps running: a wait that can take a
\* step eventually takes one.
SpecWaits == Init /\ [][NextWaits]_vars /\ WF_vars(WaitStep)

(* ------------------- reading the log of an operation ------------------- *)

\* The positions of the log at which a call of each kind stands.
At(calls) == {i \in 1..Len(log) : log[i].call \in calls}
\* Every position of B comes after some position of A.
Precedes(A, B) == \A i \in B : \E j \in A : j < i

Resets == {i \in At({"resetStoreLoadCount"}) : log[i].cq = call.cq}
Types == At({"type_into_element"})
LoadWaits ==
    {i \in At({"waitForStoreLoaded"}) :
        log[i].via = "set_field_value" /\ log[i].cq = call.cq}
QuietWaits == At({"wait_for_no_ajax_requests_in_progress"})
Tabs == At({"type_tab"})
Selects == At({"selectComboBoxValue"})
SelectionProtocol ==
    {i \in 1..Len(log) :
        log[i].by = "select_combobox_value" \/ log[i].via = "select_combobox_value"}
Directs == At({"setFieldValue"})

IsRemoteCombo(f) == f.xtype # <<>> /\ "ComboBox" \in f.classes /\ f.remote

\* set_field_value on a remotely filtered combobox with a record value that
\* has a filterText and a match payload.
RemoteRecordCall ==
    /\ call.op = "set_field_value"
    /\ IsRemoteCombo(call.field)
    /\ call.value.hasValue /\ call.value.value.kind = "dict"
    /\ call.value.hasFilterText /\ call.value.filterText.s # <<>>

\* set_field_value on a remotely filtered combobox with a scalar value.
RemoteScalarCall ==
    /\ call.op = "set_field_value"
    /\ IsRemoteCombo(call.field)
    /\ IF call.value.hasValue THEN call.value.value.kind \in {"str", "num"}
                              ELSE call.value.obj.kind \in {"str", "num"}

TheScalar == IF call.value.hasValue THEN call.value.value ELSE call.value.obj

(* ------------------------------ claims --------------------------------- *)

\* C1: on a remotely filtered combobox with a filterText and a match payload,
\* set_field_value resets the load counter of the bound store, types the
\* filter text, waits for the store to be loaded, waits for the quiet period
\* and then runs the selection protocol against the match payload, each once
\* and in this order. It returns iff the selection applied a match and raises
\* RecordNotFoundException when the selection applied none; when that
\* exception is raised both waits had completed.
C1_RemoteRecordSequence ==
    RemoteRecordCall =>
        /\ Precedes(Resets, Types)
        /\ Precedes(Types, LoadWaits)
        /\ Precedes(LoadWaits, QuietWaits)
        /\ Precedes(QuietWaits, SelectionProtocol)
        /\ Cardinality(Resets) <= 1 /\ Cardinality(Types) <= 1 /\ Cardinality(LoadWaits) <= 1
        /\ Cardinality(QuietWaits) <= 1 /\ Cardinality(Selects) <= 1
        /\ Tabs = {} /\ Directs = {}
        /\ \A i \in 1..Len(log) :
              /\ i \in Types => log[i].arg = call.value.filterText
              /\ i \in Selects => log[i].arg = call.value.value
              /\ log[i].cq = call.cq
        /\ status = "returned" => Selects # {} /\ selected
        /\ Selects # {} /\ selected =>
              /\ status # "raised"
              /\ Matches(applied.payload, call.value.value.payload)
        /\ Selects # {} /\ ~selected =>
              /\ status # "returned"
              /\ status = "raised" => error = "RecordNotFoundException"
        /\ error = "RecordNotFoundException" =>
              /\ Selects # {} /\ ~selected
              /\ LoadWaits # {} /\ QuietWaits # {}

C1_Witness ==
    /\ RemoteRecordCall
    /\ status = "raised" /\ error = "RecordNotFoundException"

C1_WitnessSelected ==
    /\ RemoteRecordCall
    /\ status = "returned" /\ applied = DictV(Stoat)

\* C2: on a remotely filtered combobox with a scalar value, set_field_value
\* resets the load counter of the bound store, types the scalar as filter
\* text, waits for the store to be loaded, waits for the quiet period and
\* then tabs off, in this order; no tab is emitted before both waits have
\* completed and the selection protocol is never called.
C2_RemoteScalarSequence ==
    RemoteScalarCall =>
        /\ Precedes(Resets, Types)
        /\ Precedes(Types, LoadWaits)
        /\ Precedes(LoadWaits, QuietWaits)
        /\ Precedes(QuietWaits, Tabs)
        /\ Precedes(LoadWaits, Tabs)
        /\ Cardinality(Resets) <= 1 /\ Cardinality(Types) <= 1 /\ Cardinality(LoadWaits) <= 1
        /\ Cardinality(QuietWaits) <= 1 /\ Cardinality(Tabs) <= 1
        /\ SelectionProtocol = {} /\ Directs = {}
        /\ \A i \in 1..Len(log) :
              /\ i \in Types => log[i].arg = TheScalar
              /\ log[i].cq = call.cq
        /\ status = "returned" => Tabs # {}
        /\ error # "RecordNotFoundException"

C2_Witness ==
    /\ RemoteScalarCall
    /\ status = "returned" /\ Tabs # {}

\* The client is at a wait for loaded that follows its reset and trigger.
AtClientLoadWait ==
    /\ Running
    /\ Cur.by = "wait_for_store_loaded"
    /\ Cur.via \in {"trigger_reload_and_wait", "set_field_value"}

\* C3: once the fetch the client triggered has completed, the wait for
\* loaded that follows the client's reset and trigger succeeds: it neither
\* times out nor polls in vain, whether the fetch completed before the
\* client started waiting or while it waited.
C3_RaceAvoidance ==
    [][ AtClientLoadWait /\ ownDone =>
            /\ status' = "running"
            /\ clientVars' # clientVars => pc' = pc + 1 ]_vars

C3_Witness ==
    /\ call.op = "trigger_reload_and_wait"
    /\ AtClientLoadWait /\ ticks = 0
    /\ started /\ ownDone

\* The wait for loaded that follows the client's reset and trigger has returned.
ClientLoadWaitReturned ==
    /\ call.op \in {"trigger_reload_and_wait", "set_field_value"}
    /\ \/ LoadWaits # {}
       \/ call.op = "trigger_reload_and_wait" /\ status = "returned"

C5_WaitForLoaded ==
    /\ [](call.op = "trigger_reload_and_wait" /\ ~StoreAutoLoad[call.cq]
            /\ status = "returned" /\ ~otherDone => ownDone /\ loadCount[call.cq] > 0)
    /\ [](call.op = "trigger_reload_and_wait" /\ ~StoreAutoLoad[call.cq]
            /\ status = "raised" /\ ownDone => loadCount[call.cq] > 0)
    /\ [](call.op = "wait_for_store_loaded" /\ countAtCall > 0 =>
            ticks = 0 /\ status # "raised")
    /\ [][ Running /\ Cur.by = "wait_for_store_loaded" =>
            /\ status' = "raised" =>
                  error' = "TimeoutException" /\ ~isLoaded(loadCount, Cur.cq)
            /\ pc' = pc + 1 => isLoaded(loadCount, Cur.cq) ]_vars

C5_Witness ==
    /\ call.op = "wait_for_store_loaded" /\ countAtCall > 0
    /\ status = "returned" /\ ~freshLoad
    /\ pending[call.cq] > 0

\* C6: trigger_reload_and_wait performs the reset, the reload and the wait in
\* this order, once each and on the address it was given, and nothing else.
C6_TriggerReloadAndWaitSequence ==
    call.op = "trigger_reload_and_wait" =>
        /\ Len(log) <= 3
        /\ \A i \in 1..Len(log) :
              /\ log[i].by = <<"reset_store_load_count", "trigger_reload",
                                "wait_for_store_loaded">>[i]
              /\ log[i].call = <<"resetStoreLoadCount", "reload",
                                  "waitForStoreLoaded">>[i]
              /\ log[i].cq = call.cq
        /\ status = "returned" => Len(log) = 3
        /\ started <=> Len(log) >= 2

C6_Witness ==
    /\ call.op = "trigger_reload_and_wait" /\ call.cq = "cqA"
    /\ status = "returned" /\ Len(log) = 3

\* C7: a call of reset_store_load_count on a store that is not auto-loading
\* sets its counter to zero, and the counter is zero after each of two resets
\* in a row with no fetch in between; on an auto-loading store the call
\* changes no counter; the call never raises.
C7_Reset ==
    /\ [](call.op = "reset_store_load_count" /\ ~StoreAutoLoad[call.cq]
            /\ Len(log) >= 1 /\ ~freshLoad => loadCount[call.cq] = 0)
    /\ [](call.op = "reset_store_load_count" => status # "raised")
    /\ [][ Running /\ Cur.by = "reset_store_load_count" /\ pc' = pc + 1 =>
            /\ pending' = pending
            /\ loadCount' = IF StoreAutoLoad[Cur.cq] THEN loadCount
                             ELSE [loadCount EXCEPT ![Cur.cq] = 0] ]_vars

C7_Witness ==
    /\ call.op = "reset_store_load_count" /\ ~StoreAutoLoad[call.cq]
    /\ countAtCall > 0
    /\ status = "returned" /\ Len(log) = 2 /\ ~freshLoad
    /\ loadCount[call.cq] = 0

C7_WitnessAutoLoad ==
    /\ call.op = "reset_store_load_count" /\ StoreAutoLoad[call.cq]
    /\ status = "returned" /\ loadCount[call.cq] > 0

\* C8: in every step the load counter of a store either stays, or goes up by
\* one together with the completion of one fetch, or is set to zero by a call
\* of reset_store_load_count on that store; every completed fetch raises it
\* by exactly one, and clearing the store's data leaves it alone.
C8_CounterChanges ==
    [][ \A cq \in CQs :
          /\ \/ loadCount'[cq] = loadCount[cq]
             \/ /\ loadCount'[cq] = loadCount[cq] + 1
                /\ pending'[cq] = pending[cq] - 1
             \/ /\ Running /\ Cur.by = "reset_store_load_count" /\ Cur.cq = cq
                /\ pc' = pc + 1
                /\ loadCount'[cq] = 0
          /\ pending'[cq] < pending[cq] =>
                loadCount'[cq] = loadCount[cq] + 1 /\ pending'[cq] = pending[cq] - 1
          /\ records'[cq] = <<>> /\ records[cq] # <<>> =>
                loadCount'[cq] = loadCount[cq] ]_vars

C8_Witness ==
    \E cq \in CQs : loadCount[cq] = 2 /\ records[cq] = <<>> /\ ~StoreAutoLoad[cq]

\* C9: when the form holds no field of the name (the xtype lookup finds
\* nothing), set_field_value raises FieldNotFoundException and does nothing
\* else: no input event, no reset of a load counter, no value assignment;
\* and it raises this exception in no other case.
C9_FieldNotFound ==
    call.op = "set_field_value" =>
        /\ call.field.xtype = <<>> =>
              /\ log = <<>> /\ applied = None /\ ~started
              /\ status # "returned"
              /\ status = "raised" => error = "FieldNotFoundException"
        /\ error = "FieldNotFoundException" => call.field.xtype = <<>>

C9_Witness ==
    /\ call.op = "set_field_value" /\ call.field.xtype = <<>>
    /\ status = "raised" /\ error = "FieldNotFoundException"

\* The field is a combobox, a text field, a radio group, a checkbox or a radio.
Assignable(f) ==
    \/ f.classes \cap {"ComboBox", "Text", "Checkbox", "Radio"} # {}
    \/ f.xtype # <<>> /\ f.xtype[Len(f.xtype)] = "radiogroup"

\* C10: set_field_value raises UnsupportedFieldXTypeException exactly when the
\* field exists and is none of combobox, text field, radio group, checkbox
\* and radio; it then makes no other call (nothing is retried, no input
\* event is emitted and no value is assigned).
C10_UnsupportedFieldKind ==
    call.op = "set_field_value" =>
        /\ error = "UnsupportedFieldXTypeException" =>
              call.field.xtype # <<>> /\ ~Assignable(call.field)
        /\ call.field.xtype # <<>> /\ ~Assignable(call.field) =>
              /\ log = <<>> /\ applied = None /\ ~started
              /\ Len(prog) = 1
              /\ status # "returned"
              /\ status = "raised" => error = "UnsupportedFieldXTypeException"

C10_Witness ==
    /\ call.op = "set_field_value"
    /\ call.field.xtype = <<"radiogroup", "panel">>
    /\ status = "raised" /\ error = "UnsupportedFieldXTypeException"

\* The field is a checkbox, a radio or a radio group.
BooleanField(f) ==
    /\ f.xtype # <<>>
    /\ \/ f.classes \cap {"Checkbox", "Radio"} # {}
       \/ f.xtype[Len(f.xtype)] = "radiogroup"

\* C11: set_field_value on a checkbox, a radio or a radio group makes exactly
\* one call, the direct assignment of the field value, and delivers no input
\* event (no key, click or tab) to the browser; it does not raise.
C11_BooleanDirect ==
    call.op = "set_field_value" /\ BooleanField(call.field) =>
        /\ events = <<>>
        /\ Types = {} /\ Tabs = {}
        /\ Len(log) <= 1
        /\ \A i \in 1..Len(log) :
              log[i].call = "setFieldValue" /\ log[i].arg = TheScalar
        /\ status # "raised"
        /\ status = "returned" => Len(log) = 1 /\ applied = TheScalar

C11_Witness ==
    /\ call.op = "set_field_value"
    /\ call.field.xtype = <<"my", "radiogroup">>
    /\ status = "returned" /\ Cardinality(Directs) = 1

\* The field is typed into by set_field_value: a text, number or date field.
TypableField(f) ==
    f.xtype # <<>> /\ "Text" \in f.classes /\ "ComboBox" \notin f.classes

\* The positions of the delivered events of each kind.
EventsAt(ev, keys) ==
    {i \in 1..Len(events) : events[i].ev = ev /\ events[i].key \in keys}
Clears == EventsAt("clear", {""})
Moves == EventsAt("move", {""})
Clicks == EventsAt("click", {""})
CharKeys == {i \in 1..Len(events) : events[i].ev = "key" /\ events[i].key # "TAB"}
DelayPauses == EventsAt("pause", {"delay"})
TabKeys == EventsAt("key", {"TAB"})
\* Every position of A comes before every position of B.
Before(A, B) == \A i \in A, j \in B : i < j

\* C12: set_field_value on a text, number or date field with a scalar value
\* delivers the characters of str(value) to the field as one key event per
\* character, in order and once each (42 gives "4" then "2"), on a local and
\* on a remote driver, and never calls the direct assignment.
C12_TypableScalar ==
    /\ call.op = "set_field_value" /\ TypableField(call.field)
    /\ TheScalar.kind \in {"str", "num"}
    =>
        /\ Directs = {}
        /\ Types # {} =>
              /\ Keyed(events) = str(TheScalar)
              /\ Cardinality(CharKeys) = Len(str(TheScalar))
              /\ \A i \in CharKeys : events[i].key \in {"S", "t", "o", "4", "2"}
              /\ applied = StrV(str(TheScalar))
        /\ status = "returned" => Types # {}
        /\ status = "raised" => error = "TimeoutException" /\ events = <<>>

C12_Witness ==
    /\ call.op = "set_field_value" /\ TypableField(call.field)
    /\ call.value = Plain(NumV(42)) /\ is_remote
    /\ status = "returned" /\ Keyed(events) = <<"4", "2">>

\* The flags the running type_into_element was called with.
TypingCall == call.op = "type_into_element" /\ log # <<>>

\* C13: type_into_element delivers its events in the order clear, move,
\* click, characters, delay, tab: the clear only when clear_first, the delay
\* only when a delay is given and the tab only when tab_off; the move and the
\* click are delivered once each and no character comes before the click.
C13_TypingOrder ==
    /\ call.op = "type_into_element" /\ log = <<>> => events = <<>>
    /\ TypingCall =>
        /\ Before(Clears, Moves) /\ Before(Moves, Clicks)
        /\ Before(Clicks, CharKeys) /\ Before(CharKeys, DelayPauses)
        /\ Before(Clears \cup Moves \cup Clicks \cup CharKeys \cup DelayPauses, TabKeys)
        /\ Before(Clicks, DelayPauses)
        /\ Cardinality(Moves) = 1 /\ Cardinality(Clicks) = 1
        /\ Cardinality(Clears) = (IF log[1].clear_first THEN 1 ELSE 0)
        /\ Cardinality(DelayPauses) = (IF log[1].delay # 0 THEN 1 ELSE 0)
        /\ Cardinality(TabKeys) = (IF log[1].tab_off THEN 1 ELSE 0)
        /\ Keyed(events) = str(log[1].arg)

C13_Witness ==
    /\ TypingCall /\ status = "returned" /\ ~is_remote
    /\ log[1].arg = StrV(Sto) /\ ~log[1].opt
    /\ log[1].clear_first /\ log[1].delay # 0 /\ log[1].tab_off
    /\ Len(events) = 12

\* set_field_value on a remotely filtered combobox with a record value that
\* has no filterText, or an empty one.
RemoteRecordNoFilterCall ==
    /\ call.op = "set_field_value"
    /\ IsRemoteCombo(call.field)
    /\ TheScalar.kind = "dict"
    /\ \/ call.value.obj.kind # "dict"
       \/ ~call.value.hasFilterText
       \/ call.value.filterText.kind = "none"
       \/ call.value.filterText.s = <<>>

\* C14: set_field_value on a remotely filtered combobox with a record value
\* without filterText, or with an empty one, raises ArgumentException before
\* it makes any call: the load counter is not reset, no fetch is started and
\* no input event is delivered; the exception is raised in no other case.
C14_MissingFilterText ==
    /\ RemoteRecordNoFilterCall =>
          /\ log = <<>> /\ events = <<>> /\ ~started /\ applied = None
          /\ status # "returned"
          /\ status = "raised" => error = "ArgumentException"
    /\ error = "ArgumentException" => RemoteRecordNoFilterCall

C14_Witness ==
    /\ RemoteRecordNoFilterCall
    /\ call.value.hasFilterText /\ call.value.filterText = StrV(<<>>)
    /\ countAtCall > 0 /\ loadCount[call.cq] > 0
    /\ status = "raised" /\ error = "ArgumentException"

\* set_field_value on a combobox with local data.
LocalComboCall ==
    /\ call.op = "set_field_value"
    /\ call.field.xtype # <<>> /\ "ComboBox" \in call.field.classes
    /\ ~call.field.remote

\* C15: set_field_value on a combobox with local data and a scalar value
\* finds the input element, types the scalar into it as text and tabs off;
\* it resets no load counter, waits for no store load, runs no selection
\* protocol and assigns nothing directly.
C15_LocalComboScalar ==
    LocalComboCall /\ TheScalar.kind \in {"str", "num"} =>
        /\ Resets = {} /\ At({"waitForStoreLoaded", "reload"}) = {}
        /\ SelectionProtocol = {} /\ Directs = {} /\ ~started
        /\ Len(log) <= 4
        /\ \A i \in 1..Len(log) :
              log[i].call = <<"wait_for_single_query", "findFieldInputElement",
                              "type_into_element", "type_tab">>[i]
        /\ Types # {} =>
              /\ Keyed(events) = str(TheScalar)
              /\ applied = StrV(str(TheScalar))
              /\ \A i \in Types : log[i].arg = TheScalar
        /\ Types = {} => events = <<>>
        /\ status = "returned" => Len(log) = 4
        /\ status = "raised" => error = "TimeoutException" /\ log = <<>>

C15_Witness ==
    /\ LocalComboCall /\ call.value = Plain(StrV(Sto))
    /\ status = "returned" /\ applied = StrV(Sto) /\ Tabs # {}

\* C16: set_field_value on a combobox with local data and a match payload
\* runs the selection protocol at once (the wait for the store, then the
\* selection script); it delivers no input event and resets no load counter;
\* it raises RecordNotFoundException iff the selection script reported that
\* no record was applied, and returns iff it reported that one was.
C16_LocalComboRecord ==
    LocalComboCall /\ TheScalar.kind = "dict" =>
        /\ events = <<>> /\ Types = {} /\ Tabs = {} /\ Resets = {} /\ Directs = {}
        /\ ~started
        /\ \A i \in 1..Len(log) :
              /\ i <= 3
              /\ log[i].call = <<"waitForStoreLoaded", "selectComboBoxValue",
                                  "raise_unless_selected">>[i]
              /\ i \in Selects => log[i].arg = TheScalar
        /\ error = "RecordNotFoundException" => Selects # {} /\ ~selected
        /\ Selects # {} /\ ~selected =>
              /\ status # "returned"
              /\ status = "raised" => error = "RecordNotFoundException"
        /\ Selects # {} /\ selected => status # "raised"
        /\ status = "returned" => Selects # {} /\ selected
        /\ status = "raised" /\ Selects = {} => error = "TimeoutException"

C16_Witness ==
    /\ LocalComboCall /\ call.value = Plain(DictV(CatPayload))
    /\ records[call.cq] # <<>>
    /\ status = "raised" /\ error = "RecordNotFoundException"

C16_WitnessSelected ==
    /\ LocalComboCall /\ call.value = Plain(DictV(StoatPayload))
    /\ status = "returned" /\ applied = DictV(Stoat)

\* The positions of recs whose record holds every key of the payload with an
\* equal value.
MatchesOf(recs, payload) ==
    {i \in 1..Len(recs) : \A kv \in payload : kv \in recs[i]}

\* C17: the selection script reports true iff a materialised record of the
\* store holds every key of the match payload with an equal value (its other
\* fields are ignored); it then applies the first such record in source
\* order as the field's value; when none matches it leaves the field's value
\* as it was and reports false. The record a selection applied matches the
\* payload the caller gave.
C17_SelectionProtocol ==
    /\ [][ Running /\ Cur.call = "selectComboBoxValue" /\ pc' = pc + 1 =>
            LET M == MatchesOf(records[Cur.cq], Cur.arg.payload)
            IN  /\ selected' = (M # {})
                /\ M = {} => applied' = applied
                /\ M # {} =>
                      \E i \in M :
                          /\ \A j \in M : i <= j
                          /\ applied' = DictV(records[Cur.cq][i]) ]_vars
    /\ [](call.op = "set_field_value" /\ Selects # {} /\ selected =>
            /\ applied.kind = "dict"
            /\ \A kv \in TheScalar.payload : kv \in applied.payload)

C17_Witness ==
    /\ call.op = "set_field_value" /\ TheScalar = DictV(SpecialPayload)
    /\ Selects # {} /\ selected
    /\ applied = DictV(Stoat) /\ Weasel \in {records[call.cq][i] : i \in 1..Len(records[call.cq])}

C17_WitnessUnchanged ==
    /\ RemoteRecordCall /\ Selects # {} /\ ~selected
    /\ applied = StrV(Sto)

(* ----------------------- waiting for a tree node ----------------------- *)

TreeCall == call.op = "wait_for_tree_node"
\* The least time between the starts of two poll ticks: the poll interval and
\* the two rechecks that the tree is not loading.
TickTime == PollInterval + 2 * Recheck

\* C18: on every poll tick of wait_for_tree_node the node is looked up afresh,
\* once; a tick that finds the node reports success and triggers no reload; a
\* tick that does not find it triggers exactly one reload of the parent and
\* reports not-yet-satisfied, so that every earlier tick has reloaded once; no
\* reload is triggered on or after the tick that found the node.
C18_TickReloads ==
    /\ [](TreeCall =>
            /\ tick.lookups <= 1 /\ tick.reloads <= 1
            /\ tick.reloads = 1 => tick.lookups = 1 /\ ~tick.found
            /\ tick.found => tick.lookups = 1
            /\ (status = "running" /\ at = "sleep") =>
                  tick.lookups = 1 /\ ~tick.found /\ tick.reloads = 1
            /\ (status = "returned" \/ (status = "running" /\ at = "final")) =>
                  tick.found /\ tick.reloads = 0
            /\ polls >= 1 => reloads = (polls - 1) + tick.reloads)
    /\ [][(TreeCall /\ tick.found /\ status' # "idle") =>
              reloads' = reloads /\ polls' = polls]_vars

\* A call that found the node on its second tick, after one reload of the parent.
C18_Witness ==
    /\ TreeCall /\ status = "returned"
    /\ polls = 2 /\ reloads = 1 /\ tick.found /\ tick.reloads = 0

C20_HandleOrTimeout ==
    (TreeCall /\ status = "returned") => result = "element"

(* ------------------ the tree is not loading: accessors ------------------ *)

\* The statements at which a call sends a lookup or a reload request to the tree.
RequestPoints == {"lookup", "reload", "final", "menu"}
TreeRunning == status = "running" /\ call.op \in TreeOps

FindCall == call.op = "find_field_input_element"

WaitCall == call.op \in CoreWaits

\* C23: every wait of the core (for the store to be loaded, until the tree is
\* not loading, for a tree node, until a field has the focus) that has begun
\* ends, in a return or in an error raised to the caller; the only error it
\* raises is the timeout, and a wait built on the clock raises it only when
\* the clock has passed the end time of the wait, whatever the number of polls.
C23_WaitsTerminate ==
    /\ (WaitCall /\ status = "running") ~> (WaitCall /\ status \in {"returned", "raised"})
    /\ [][(WaitCall /\ status = "running" /\ status' = "raised") =>
              /\ error' = "TimeoutException"
              /\ call.op # "wait_for_store_loaded" =>
                    IF at = "sleep" THEN Expired(now', end_time)
                                    ELSE Expired(now', wait_end_time)]_vars

\* A wait for a tree node that timed out after several polls, and a wait
\* until the tree is not loading that timed out.
C23_Witness ==
    /\ call.op = "wait_for_tree_node" /\ status = "raised" /\ at = "sleep"
    /\ polls >= 3 /\ now > Timeout
C23_WitnessTree ==
    /\ call.op = "wait_until_tree_not_loading" /\ status = "raised" /\ now > TreeTimeout
C23_WitnessFocus ==
    /\ call.op = "wait_until_field_has_focus" /\ status = "returned" /\ polls >= 2
C23_WitnessStore ==
    /\ call.op = "wait_for_store_loaded" /\ status = "raised" /\ ticks = MaxTicks

(* ------------------------- not-found messages -------------------------- *)

\* The value v stands in the formatted message m.
Names(m, v) == \E i \in 1..Len(m) : m[i].kind = "value" /\ m[i].value = v

\* C24: every not-found error that has been raised carries the address and
\* the key of its lookup, and its string is its message with every
\* replacement field replaced: the field error names the form and the field,
\* the record error the form, the field and the match payload, the node error
\* the tree and the node key, the column error the grid and the column key.
C24_NotFoundMessage ==
    (status = "raised" /\ error \in NotFoundExceptions) =>
        LET m == __str__(exc)
            carried == {exc.attrs[a] : a \in DOMAIN exc.attrs}
        IN  /\ exc.class = error
            /\ lookup.address \in carried /\ lookup.key \in carried
            /\ m.raises = ""
            /\ \A i \in 1..Len(m.value) : m.value[i].kind # "field"
            /\ Names(m.value, lookup.address) /\ Names(m.value, lookup.key)
            /\ lookup.kind = "record" => lookup.data \in carried /\ Names(m.value, lookup.data)
            /\ exc.class = (CASE lookup.kind = "field" -> "FieldNotFoundException"
                              [] lookup.kind = "record" -> "RecordNotFoundException"
                              [] lookup.kind = "node" -> "NodeNotFoundException"
                              [] lookup.kind = "column" -> "ColumnNotFoundException")

\* A record of a combobox was not found, and a node looked up by its data.
C24_Witness ==
    /\ status = "raised" /\ error = "RecordNotFoundException"
    /\ lookup.data = DictV(CatPayload)
C24_WitnessNode ==
    /\ status = "raised" /\ error = "NodeNotFoundException" /\ lookup.key.kind = "dict"

(* -------------------------- a list of form values ---------------------- *)

\* The keys that have reached the browser, in order.
IsKey(e) == e.ev = "key"
KeysSent == [i \in 1..Len(SelectSeq(events, IsKey)) |-> SelectSeq(events, IsKey)[i].key]

\* The keys of a list of values: for each element in turn the characters of
\* str(value) when the element is to be typed, and one tab.
RECURSIVE KeysOf(_, _)
KeysOf(field_values, typed) ==
    IF field_values = <<>> THEN <<>>
    ELSE (IF Head(field_values) \in typed THEN str(Head(field_values)) ELSE <<>>)
         \o <<"TAB">> \o KeysOf(Tail(field_values), typed)

ListCall == call.op = "set_form_values" /\ call.value.obj.kind = "list"

\* C25: when set_form_values with a list of values has returned, the keys
\* typed are, for each element of the list in order, the characters of its
\* str() if the element is not None (nothing if it is None), followed by
\* exactly one tab.
C25_AsStated ==
    (ListCall /\ status = "returned") =>
        KeysSent = KeysOf(call.value.obj.s, ListValues \ {None})

\* What the code does: only the truthy elements are typed, so that 0 and
\* the empty string are passed over as None is; every element has its tab.
C25_TruthyTyped ==
    (ListCall /\ status = "returned") =>
        KeysSent = KeysOf(call.value.obj.s, {v \in ListValues : Truthy(v)})
C25_Witness ==
    /\ ListCall /\ status = "returned"
    /\ call.value.obj.s = <<NumV(0), StrV(Sto)>>
    /\ KeysSent = <<"TAB", "S", "t", "o", "TAB">>

(* -------------------------- a dict of form values ---------------------- *)

DictCall == call.op = "set_form_values" /\ call.value.obj.kind = "items"

\* C26: set_form_values with a dict calls set_field_value once for every key,
\* in the order of the keys, with the key's value: the calls that have
\* returned are those of the first keys of the dict; it returns when all of
\* them have; when one raises, its error is the error of set_form_values, no
\* call is made for a later key (no field other than that of the running
\* call ever changes), and the fields set before it hold the values given.
C26_DictOrder ==
    /\ [](DictCall =>
            LET items == call.value.obj.s
            IN  /\ Len(log) <= Len(items)
                /\ \A i \in 1..Len(log) :
                      /\ log[i].call = "set_field_value"
                      /\ log[i].name = items[i][1] /\ log[i].arg = items[i][2]
                /\ status = "returned" => Len(log) = Len(items)
                /\ status \in {"returned", "raised"} =>
                      \A i \in 1..Len(log) : form_values[items[i][1]] = items[i][2]
                /\ status = "raised" =>
                      /\ Len(log) < Len(items)
                      /\ error \in {"FieldNotFoundException", "TimeoutException"})
    /\ [][DictCall =>
            LET items == call.value.obj.s
            IN  /\ \A name \in FormFields :
                      form_values'[name] # form_values[name] =>
                          status = "running" /\ name = items[Len(log) + 1][1]
                /\ status = "raised" => status' = "idle" \/ UNCHANGED <<log, error>>]_vars

\* The second field of a dict was not found after the first was set.
C26_Witness ==
    /\ DictCall /\ status = "raised" /\ error = "FieldNotFoundException"
    /\ Len(log) = 1 /\ Len(call.value.obj.s) = 2
    /\ form_values[call.value.obj.s[1][1]] = NumV(42)

(* ------------------------- the grace delay ----------------------------- *)

\* C27: one evaluation of the tree-not-loading predicate with a grace delay
\* (recheck_time_if_false) observes the tree once or twice: when the first
\* observation shows the tree loading it reports false without a second
\* observation; when it shows the tree not loading there is exactly one
\* second observation, the grace delay after the first, and the evaluation
\* reports what that one shows. So it reports true only when both
\* observations show the tree not loading.
C27_GraceRecheck ==
    /\ []((TreeRunning /\ evaluation.done) =>
             /\ evaluation.observations \in {1, 2}
             /\ RecheckTime = 0 => evaluation.observations = 1
             /\ (RecheckTime # 0 /\ evaluation.value) =>
                    /\ evaluation.observations = 2
                    /\ evaluation.second = evaluation.first + RecheckTime)
    /\ [][(InTree("is_tree_loading") /\ at' # at /\ RecheckTime # 0) =>
             /\ evaluation'.observations = 1
             /\ evaluation'.done = treeLoading
             /\ treeLoading => ~evaluation'.value]_vars
    /\ [][(InTree("recheck") /\ at' # at) =>
             /\ evaluation.observations = 1 /\ evaluation.value /\ ~evaluation.done
             /\ evaluation'.observations = 2 /\ evaluation'.done
             /\ evaluation'.value = ~treeLoading
             /\ now = evaluation.first + RecheckTime]_vars

\* The tree was not loading at first and was loading after the grace delay:
\* the evaluation reports false; and an evaluation that reports true.
C27_Witness ==
    /\ TreeRunning /\ RecheckTime # 0
    /\ evaluation.done /\ evaluation.observations = 2 /\ ~evaluation.value
C27_WitnessTrue ==
    /\ TreeRunning /\ RecheckTime # 0
    /\ evaluation.done /\ evaluation.observations = 2 /\ evaluation.value
C27_WitnessLoading ==
    /\ TreeRunning /\ RecheckTime # 0
    /\ evaluation.done /\ evaluation.observations = 1 /\ ~evaluation.value

(* ----------------------- failures propagate ---------------------------- *)

\* set_field_value runs on a remotely filtered combobox and is at one of its
\* two waits: for the store to be loaded, for no request to be in progress.
RemoteComboCall ==
    call.op = "set_field_value" /\ "ComboBox" \in call.field.classes /\ call.field.remote
StoreWaits == {"waitForStoreLoaded", "wait_for_no_ajax_requests_in_progress"}
AtStoreWait == RemoteComboCall /\ pc <= Len(prog) /\ prog[pc].call \in StoreWaits

\* The steps of the given kinds that the running operation has performed.
Performed(calls) == {i \in 1..Len(log) : log[i].call \in calls}

\* C28: when the wait for the store to be loaded or the wait for no request
\* in progress fails in set_field_value on a remotely filtered combobox, the
\* timeout is the error of set_field_value and nothing is done after it: no
\* tab and no selection has been made, the reset and the typing were done
\* once, and the operation takes no further step; a step after a wait is
\* only taken when the wait has found its condition to hold.
C28_FailurePropagates ==
    /\ []((AtStoreWait /\ status = "raised") =>
             /\ error = "TimeoutException"
             /\ log = SubSeq(prog, 1, pc - 1)
             /\ Performed({"type_tab", "selectComboBoxValue", "raise_unless_selected"}) = {}
             /\ TabKeys = {}
             /\ Cardinality(Performed({"resetStoreLoadCount"})) = 1
             /\ Cardinality(Performed({"type_into_element"})) = 1)
    /\ [][(AtStoreWait /\ status = "raised") =>
             status' = "idle" \/ UNCHANGED <<pc, log, events, error, applied, selected>>]_vars
    /\ [][(AtStoreWait /\ status = "running" /\ pc' # pc) =>
             IF prog[pc].call = "waitForStoreLoaded"
                THEN isLoaded(loadCount, prog[pc].cq)
                ELSE \A c \in CQs : pending[c] = 0]_vars

\* The wait for the store timed out after the filter text was typed, and
\* the wait for no request in progress timed out after the store was loaded.
C28_Witness ==
    /\ AtStoreWait /\ status = "raised" /\ prog[pc].call = "waitForStoreLoaded"
    /\ Performed({"type_into_element"}) # {}
C28_WitnessQuiet ==
    /\ AtStoreWait /\ status = "raised"
    /\ prog[pc].call = "wait_for_no_ajax_requests_in_progress"

(* ------------------------- the context menu ---------------------------- *)

MenuCall == call.op = "open_node_context_menu"

\* C30: open_node_context_menu looks the node up once. When the lookup gives
\* nothing it raises NodeNotFoundException and no mouse event has been sent;
\* when it gives the node the call returns after the move to the node and
\* the context click, sent in that order and once each. The only other
\* outcome is the timeout of the wait that precedes the lookup, before which
\* nothing is looked up or sent.
C30_ContextMenu ==
    (MenuCall /\ status \in {"returned", "raised"}) =>
        /\ status = "raised" => error \in {"NodeNotFoundException", "TimeoutException"}
        /\ (status = "raised" /\ error = "TimeoutException") =>
              events = <<>> /\ request.count = 0
        /\ (status = "raised" /\ error = "NodeNotFoundException") =>
              events = <<>> /\ result = "None" /\ request.count = 1
        /\ status = "returned" =>
              /\ result = "element" /\ request.count = 1
              /\ events = <<Event("move", ""), Event("context_click", "")>>

\* The node was not found, and the node was found.
C30_Witness ==
    MenuCall /\ status = "raised" /\ error = "NodeNotFoundException" /\ sawLoading
C30_WitnessFound ==
    MenuCall /\ status = "returned" /\ Len(events) = 2

(* --------------------------- focus requests ---------------------------- *)

FocusCall == call.op = "focus_field"
\* check_has_focus_after of the running focus_field
Checking == Len(prog) > 1

\* C29: focus_field sends the focus request once and, when it checks the
\* focus and sees the field without it, exactly once more: never more than
\* two requests; a call that has returned has sent two when it checked and
\* saw no focus and one otherwise, and it returns without an error whether
\* or not the field has the focus after the second request. The one error a
\* call ends with comes from the check itself, for a field addressed by its
\* name, after the first request and before any second one.
C29_FocusRequests ==
    FocusCall =>
        /\ focusRequests <= 2
        /\ pc > 1 => focusRequests >= 1
        /\ status = "returned" =>
              focusRequests = IF Checking /\ ~focus_seen THEN 2 ELSE 1
        /\ status = "raised" =>
              /\ error = "JavascriptException" /\ focusRequests = 1
              /\ Checking /\ call.value.obj.kind = "str"

\* The field still has no focus after the second request, and the call has
\* returned; a call that saw the focus; a call that did not check.
C29_Witness ==
    /\ FocusCall /\ status = "returned" /\ Checking
    /\ focusRequests = 2 /\ ~has_focus
C29_WitnessSeen ==
    /\ FocusCall /\ status = "returned" /\ Checking /\ focus_seen /\ focusRequests = 1
C29_WitnessUnchecked ==
    /\ FocusCall /\ status = "returned" /\ ~Checking /\ ~has_focus /\ focusRequests = 1
C29_WitnessName ==
    /\ FocusCall /\ status = "raised" /\ call.value.obj = Word("name")

(* ------------------------ the starting field --------------------------- *)

\* The starting field of the running set_form_values, None when there is none.
Starting == call.value.value
FocusSteps == {"doesFieldHaveFocus", "focusField", "wait_until_field_has_focus"}

\* C31: set_form_values with a list and a starting field sends no key before
\* its wait has seen the starting field with the focus; it asks for the
\* focus at most once, and only after its check has seen the field without
\* it; and without a starting field (None) it makes no focus check, no focus
\* request and no wait for the focus.
C31_FocusBeforeTyping ==
    /\ [](ListCall =>
            /\ (Starting # None /\ events # <<>>) =>
                  Performed({"wait_until_field_has_focus"}) # {}
            /\ focusRequests <= 1
            /\ focusRequests = 1 =>
                  /\ Starting # None /\ ~focus_seen
                  /\ Performed({"doesFieldHaveFocus"}) # {}
                  /\ Performed({"type", "type_tab"}) = {}
                        \/ Performed({"wait_until_field_has_focus"}) # {}
            /\ Starting = None =>
                  /\ focusRequests = 0 /\ ~focus_seen
                  /\ \A i \in 1..Len(prog) : prog[i].call \notin FocusSteps)
    /\ [][(ListCall /\ Running /\ pc' # pc) =>
             /\ prog[pc].call = "wait_until_field_has_focus" => has_focus
             /\ prog[pc].call = "doesFieldHaveFocus" => focus_seen' = has_focus
             /\ focusRequests' # focusRequests => ~focus_seen]_vars

\* The field had no focus at the check, the focus was asked for and seen by
\* the wait, and the values were typed.
C31_Witness ==
    /\ ListCall /\ status = "returned" /\ Starting = Word("name")
    /\ focusRequests = 1 /\ Len(events) > 2
C31_WitnessNone ==
    /\ ListCall /\ status = "returned" /\ Starting = None /\ Len(events) > 2

OldCall == call.op = "FormHelper.set_form_values"
OldCombo ==
    /\ OldCall
    /\ endswith(call.field.xtype, <<"combo">>) \/ endswith(call.field.xtype, <<"combobox">>)
    /\ try_get_object_member(call.value, "value", call.value.obj).kind # "str"

\* C32 (as stated): once the older FormHelper.set_form_values is done with a
\* combobox field given a value that is not a string, the call has returned
\* without an error, exactly one direct assignment was made, it set the
\* field to the value, and nothing was typed.
C32_AsStated ==
    (OldCombo /\ status \in {"returned", "raised"}) =>
        /\ status = "returned"
        /\ Cardinality(Performed({"setFieldNumericValue"})) = 1
        /\ applied = try_get_object_member(call.value, "value", call.value.obj)
        /\ events = <<>>

\* What the code does instead: the call is over with an AttributeError, and
\* no request and no key has reached the browser.
C32_AttributeError ==
    (OldCombo /\ status \in {"returned", "raised"}) =>
        /\ status = "raised" /\ error = "AttributeError"
        /\ log = <<>> /\ events = <<>> /\ applied = None
C32_Witness ==
    /\ OldCombo /\ status = "raised" /\ error = "AttributeError"
    /\ call.value = Plain(NumV(42))

SetCall == call.op = "set_field_value"
Calls == {prog[i].call : i \in 1..Len(prog)}
Raises(exceptions) ==
    \E i \in 1..Len(prog) : prog[i].call = "raise" /\ prog[i].arg.s[1] \in exceptions
\* The paths of set_field_value, told apart by the calls the operation is
\* made of: a combobox path (the only ones that reset a load counter, wait
\* for a store, tab off, select a record or refuse a record without a
\* filter text), the plain typable path, the direct assignment, and the
\* refusal of a field that is missing or of an unsupported xtype.
ComboPath ==
    \/ Calls \cap {"resetStoreLoadCount", "type_tab", "selectComboBoxValue"} # {}
    \/ Raises({"ArgumentException"})
PlainPath ==
    /\ "type_into_element" \in Calls
    /\ Calls \subseteq {"wait_for_single_query", "findFieldInputElement", "type_into_element"}
DirectPath == Calls = {"setFieldValue"}
Refused == Raises({"FieldNotFoundException", "UnsupportedFieldXTypeException"})
PathsTaken ==
    {p \in {"combo", "plain", "direct", "refused"} :
        \/ p = "combo" /\ ComboPath
        \/ p = "plain" /\ PlainPath
        \/ p = "direct" /\ DirectPath
        \/ p = "refused" /\ Refused}

\* C33: a call of set_field_value takes exactly one path. A combobox is
\* always set by a combobox path, although it is a text field as well; the
\* plain typable path (one type_into_element with realistic typing, without
\* a reset, a wait for the store or the quiet period, or a tab) is taken
\* exactly for the text fields that are not comboboxes; and the direct
\* assignment (one setFieldValue, nothing typed) is made only on a field
\* that is neither a combobox nor a text field.
C33_OnePath ==
    SetCall =>
        /\ Cardinality(PathsTaken) = 1
        /\ call.field.xtype # <<>> =>
              /\ is_field_a_combobox(call.field) => ComboPath
              /\ PlainPath <=>
                    is_field_a_text_field(call.field) /\ ~is_field_a_combobox(call.field)
              /\ DirectPath =>
                    ~is_field_a_combobox(call.field) /\ ~is_field_a_text_field(call.field)
        /\ PlainPath =>
              /\ Cardinality(Types) <= 1
              /\ Resets = {} /\ LoadWaits = {} /\ QuietWaits = {} /\ Tabs = {}
              /\ Selects = {} /\ Directs = {}
              /\ \A i \in Types : ~log[i].opt /\ ~log[i].tab_off
              /\ \A i \in 1..Len(events) : events[i].key # "TAB"
              /\ status = "returned" => Cardinality(Types) = 1
        /\ DirectPath =>
              /\ Cardinality(Directs) <= 1 /\ Types = {} /\ Selects = {} /\ events = <<>>
              /\ status = "returned" =>
                    /\ Cardinality(Directs) = 1
                    /\ applied = try_get_object_member(call.value, "value", call.value.obj)
        /\ ~ComboPath => Resets \cup LoadWaits \cup QuietWaits \cup Tabs \cup Selects = {}

\* A local combobox, a text field as well, was given a string: it was typed
\* and tabbed off, which only the combobox path does.
C33_Witness ==
    /\ SetCall /\ status = "returned"
    /\ is_field_a_combobox(call.field) /\ is_field_a_text_field(call.field)
    /\ Types # {} /\ Tabs # {}
C33_WitnessPlain == SetCall /\ status = "returned" /\ PlainPath /\ events # <<>>
C33_WitnessDirect == SetCall /\ status = "returned" /\ DirectPath /\ applied # None

\* The requests of the running call that have reached the browser: those
\* performed and the one the call was ended by.
Sent(c) ==
    {i \in 1..Len(prog) :
        /\ prog[i].call = c
        /\ i < pc \/ (i = pc /\ status = "raised")}

\* C34 (as stated): the has-focus request focus_field makes after focusing
\* carries the same field key as its focus request, for a name as well as
\* for an index.
C34_AsStated ==
    FocusCall =>
        \A i \in Sent("focusField"), j \in Sent("doesFieldHaveFocus") :
            prog[j].arg = prog[i].arg

\* What the code does instead: the keys are equal for an index; a name is
\* quoted once in the focus request and twice in the has-focus request,
\* which is no expression of the script, so the check ends the call.
C34_NameQuotedTwice ==
    FocusCall =>
        \A i \in Sent("focusField"), j \in Sent("doesFieldHaveFocus") :
            /\ prog[i].arg = Quote(call.value.obj)
            /\ prog[j].arg = Quote(Quote(call.value.obj))
            /\ call.value.obj.kind = "num" => prog[j].arg = prog[i].arg
            /\ call.value.obj.kind = "str" =>
                  /\ prog[j].arg # prog[i].arg
                  /\ ~IsScriptArgument(prog[j].arg)
                  /\ status = "raised" /\ error = "JavascriptException"
C34_Witness ==
    /\ FocusCall /\ call.value.obj = Word("name")
    /\ Sent("doesFieldHaveFocus") # {} /\ status = "raised"
C34_WitnessIndex ==
    /\ FocusCall /\ call.value.obj = NumV(0)
    /\ Sent("doesFieldHaveFocus") # {} /\ status = "returned"

(* ------------------------ the node appears ----------------------------- *)

\* The wait for the node has started, has reloaded the parent, and the tree
\* holds the node.
Appeared == TreeCall /\ status = "running" /\ at # "" /\ reloads >= 1 /\ nodePresent
\* A poll tick is at its lookup of the node or on its way to it.
BeforeLookup ==
    \/ at \in {"until", "lookup"}
    \/ at \in {"is_tree_loading", "recheck", "wait_sleep"} /\ ret = "lookup"
\* A load of the tree that does not end while the call runs.
NeverStopsLoading == treeLoading /\ loadAge > MaxLoadTime
HandleReturned == TreeCall /\ status = "returned" /\ result = "element"

\* C35 (as stated): once a parent reload of wait_for_tree_node has made the
\* node appear before the timeout has elapsed, the call returns the handle
\* of the node, unless the node goes away again or the tree never stops
\* loading.
C35_AsStated ==
    (Appeared /\ now < end_time) ~> (HandleReturned \/ ~nodePresent \/ NeverStopsLoading)

\* C35: once a parent reload of wait_for_tree_node has made the node appear
\* and a poll tick is still to look the node up, the call returns the handle
\* of the node, unless the node goes away again or the tree never stops
\* loading; a node that appears after the lookup of the last tick is not
\* seen. Each tick looks the node up afresh: what a tick found is what the
\* tree held at its own lookup, a tick begins with nothing found, and the
\* call sleeps only after a tick that did not find the node.
C35_SeenByATick ==
    /\ (Appeared /\ BeforeLookup) ~> (HandleReturned \/ ~nodePresent \/ NeverStopsLoading)
    /\ [][/\ (TreeCall /\ status = "running" /\ at = "lookup" /\ at' # "lookup") =>
                tick'.found = nodePresent /\ tick'.lookups = 1
          /\ (TreeCall /\ status = "running" /\ at = "until" /\ at' # "until") =>
                tick'.lookups = 0 /\ ~tick'.found]_vars
    /\ []((TreeCall /\ status = "running" /\ at = "sleep") => ~tick.found)

\* The node appeared after the first tick's reload and a later tick returned
\* its handle; the node appeared before the timeout had elapsed and the call
\* timed out.
C35_Witness ==
    /\ HandleReturned /\ polls >= 2 /\ reloads >= 1 /\ tick.found /\ nodePresent
C35_WitnessTimeout ==
    /\ TreeCall /\ status = "raised" /\ at = "sleep" /\ nodePresent /\ ~treeLoading
    /\ now - PollInterval < end_time

(* ------------------------ the input handle ----------------------------- *)

SingleWaits == At({"wait_for_single_query"})
Finds == At({"findFieldInputElement"})

\* C36: in every typing path of set_field_value the input element of the
\* field is looked up directly after the wait that saw the field as a single
\* enabled component, and the typing directly follows the lookup, all three
\* on the field of the call and within the call; no key is sent before that
\* wait has seen the field, and a call whose wait ended without seeing it
\* (timeout) has looked up no element and has sent no key.
C36_HandleAfterEnabled ==
    SetCall =>
        /\ \A i \in Finds :
              /\ i > 1 /\ (i - 1) \in SingleWaits
              /\ log[i].cq = call.cq /\ log[i - 1].cq = call.cq
        /\ \A i \in Types :
              /\ i > 2 /\ (i - 1) \in Finds /\ (i - 2) \in SingleWaits
              /\ log[i].cq = call.cq
        /\ Cardinality(Finds) <= 1 /\ Cardinality(SingleWaits) <= 1
        /\ events # <<>> => Types # {} /\ Finds # {} /\ SingleWaits # {}
        /\ (status \in {"running", "raised"} /\ pc <= Len(prog)
                /\ prog[pc].call = "wait_for_single_query") =>
              /\ Finds = {} /\ Types = {} /\ events = <<>>
              /\ status = "raised" => error = "TimeoutException"

\* A value was typed after the wait and the lookup; a call whose wait for
\* the field timed out.
C36_Witness ==
    /\ SetCall /\ status = "returned" /\ events # <<>>
    /\ SingleWaits # {} /\ Finds # {} /\ Types # {}
C36_WitnessTimeout ==
    /\ SetCall /\ status = "raised" /\ error = "TimeoutException"
    /\ prog[pc].call = "wait_for_single_query" /\ events = <<>>

(* ----------------------- reading a store ------------------------------- *)

\* The requests that read the records of a store.
Reads == At({"selectComboBoxValue", "checkStoreContains"})

\* C37: select_combobox_value and check_store_contains send the request that
\* reads the records of a store only directly after their own
\* wait_for_store_loaded on that store has returned, which it does only
\* when the store is loaded; wait_for_store_loaded is made of that one wait
\* and of no wait for the quiet period, whoever calls it.
C37_LoadedBeforeRead ==
    /\ [](\A i \in Reads :
            /\ i > 1
            /\ log[i - 1].call = "waitForStoreLoaded"
            /\ log[i - 1].by = "wait_for_store_loaded"
            /\ log[i - 1].via = log[i].by
            /\ log[i - 1].cq = log[i].cq)
    /\ [](\A i \in 1..Len(prog) :
            /\ prog[i].by = "wait_for_store_loaded" => prog[i].call = "waitForStoreLoaded"
            /\ prog[i].call = "wait_for_no_ajax_requests_in_progress" =>
                  prog[i].by # "wait_for_store_loaded")
    /\ [](call.op = "wait_for_store_loaded" => Len(prog) = 1 /\ QuietWaits = {})
    /\ [][(Running /\ prog[pc].call = "waitForStoreLoaded" /\ pc' = pc + 1) =>
             isLoaded(loadCount, prog[pc].cq)]_vars
    /\ [][(Running /\ prog[pc].call \in {"selectComboBoxValue", "checkStoreContains"}) =>
             isLoaded(loadCount, prog[pc].cq)]_vars

\* check_store_contains has read the records after its wait, with a fetch
\* of that store still in flight; a selection has read them after its wait.
C37_Witness ==
    /\ call.op = "check_store_contains" /\ status = "returned"
    /\ Reads # {} /\ pending[call.cq] > 0
C37_WitnessSelect ==
    /\ SetCall /\ status = "returned" /\ Selects # {} /\ selected
C37_WitnessThrows ==
    /\ call.op = "check_store_contains" /\ status = "raised"
    /\ error = "JavascriptException"

(* --------------------- constructing a helper --------------------------- *)

InitCall == call.op = "__init__"

\* C38: the constructor of a helper loads the script of its class at most
\* once, and only after its test has seen the script undefined; when the
\* test sees the script defined the constructor returns at once and loads
\* nothing. A constructor that has returned has seen the script defined in
\* its last test, after a load in a poll of the wait, and the script is
\* defined; the only error is the timeout, raised after a load once the
\* clock has passed the script-load timeout without a test having seen the
\* script defined.
C38_ScriptLoadedOnce ==
    /\ [](InitCall =>
            /\ scripts.loads <= 1
            /\ scripts.loads = 1 => scripts.injected[class_name] /\ scripts.tests >= 1
            /\ status = "returned" =>
                  /\ scripts.seen /\ scripts.defined[class_name]
                  /\ scripts.loads = 0 => scripts.tests = 1 /\ polls = 0
                  /\ scripts.loads = 1 => scripts.tests = polls + 1 /\ polls >= 1
            /\ status = "raised" =>
                  /\ error = "TimeoutException" /\ scripts.loads = 1 /\ ~scripts.seen
                  /\ now > ScriptLoadTimeout /\ end_time = ScriptLoadTimeout)
    /\ [][(InitCall /\ status = "running") =>
             /\ scripts'.loads # scripts.loads =>
                   scripts.tests = 1 /\ ~scripts.seen /\ scripts.loads = 0
             /\ (at = "" /\ scripts.defined[class_name] /\ scripts'.tests # scripts.tests) =>
                   status' = "returned" /\ scripts'.loads = 0]_vars

\* The script was loaded, defined its class later, and a second poll of the
\* wait saw it; a constructor that found the script defined; a constructor
\* that timed out.
C38_Witness ==
    /\ InitCall /\ status = "returned" /\ scripts.loads = 1 /\ polls >= 2
C38_WitnessDefined ==
    /\ InitCall /\ status = "returned" /\ scripts.loads = 0
C38_WitnessTimeout ==
    /\ InitCall /\ status = "raised" /\ error = "TimeoutException"

====
